---- MODULE Spec2Model ----
(***************************************************************************)
(* Model of the etoad workflow engine (src/src/etoad/WorkflowManager.py):  *)
(* the main thread (submit_samples, start_system, the GUI loop and the     *)
(* join) and the control thread (_run_system: initialize_system, one       *)
(* _measure_sample per queued sample, shutdown_system).                    *)
(*                                                                         *)
(* Python dictionaries are functions whose DOMAIN is the key set.  The     *)
(* workflow file of a sample is an input: its cell-lifecycle settings are  *)
(* drawn when the file is loaded, and the definition of each step is drawn *)
(* when the step loop reaches it (a step definition is read by the code    *)
(* only when the step is dispatched, so this reaches the same behaviours   *)
(* as drawing the whole file at load time).                                *)
(***************************************************************************)
EXTENDS Integers, Sequences, FiniteSets, TLC

\* ---------------------------------------------------------------- bounds
MaxSamples == 2      \* longest sample queue
MaxSteps == 3        \* most steps in one workflow file
MaxUpdates == 1      \* most entries in one update_parameters list
MaxVolume == 3       \* largest sample / total volume of a workflow file, in mL
MaxCycles == 2       \* largest number of washing cycles of a workflow file
MaxVoltage == 3      \* voltages of a voltammogram are the grid points 1..MaxVoltage
MaxPeaks == 3        \* most peaks picked in one iteration
MaxIterations == 2   \* iterations of one pulsed measurement
MaxCvCycles == 5     \* most cycles in one iteration of a cyclic voltammogram
MaxAnalysisSteps == 3  \* most steps in one analysis configuration
MaxRows == 3         \* most rows the potentiostat delivers in one measurement
MaxRuns == 2         \* most calls of start_system on one manager
MaxFactor == 2       \* largest dilution factor
MaxCellCalls == 2    \* most calls on the sampling system while one sample is in the cell
MaxPulseRows == 5    \* most rows of a differential-pulse data set
MaxCurrent == 1      \* currents of a data set are 0..MaxCurrent

\* ---------------------------------------------------------------- inputs
RequiredSampleKeys == {"sample_name", "sample_location", "workflow_path"}

\* the samples a caller submits; the same one may be submitted more than once
SampleInputs ==
    { [sample_name |-> "A", sample_location |-> 1, workflow_path |-> "workflow.json"],
      [sample_name |-> "B", sample_location |-> 2, workflow_path |-> "workflow.json"] }

BoundedSeq(S, n) == UNION { [1..k -> S] : k \in 0..n }

StepNames == <<"s1", "s2", "s3", "s4", "s5", "s6">>
StepNameSet == { StepNames[j] : j \in 1..(MaxSteps + 1) }

Keys == {"CV Parameters"}
Params == {"Voltage Profile"}

\* a value found in an analysis result: the two keywords and a number (written as
\* the string of its digits)
Values ==
    { [type |-> "str", val |-> "SKIP"], [type |-> "str", val |-> "STOP"],
      [type |-> "float", val |-> "0.5"] }

DeclaredValue == [type |-> "float", val |-> "0.1"]

\* an analysis result: a dictionary over some of the keys
Entries == UNION { [D -> Values] : D \in SUBSET Keys }

UpdateSettings ==
    BoundedSeq([parameter : Params, from : StepNameSet, key : Keys], MaxUpdates)

StepDefs ==
    { [task |-> "measure", technique |-> "SWV", parameters |-> [p \in Params |-> DeclaredValue],
       update_parameters |-> u, analysis_settings |-> "settings"] : u \in UpdateSettings }
    \cup { [task |-> "dilute", volume |-> 1], [task |-> "dilute", factor |-> 2] }

Workflows == [discard : BOOLEAN, nSteps : 0..MaxSteps]
NoWorkflow == [discard |-> FALSE, nSteps |-> 0]

\* one entry of the history: the phase of the engine, what was called (or which
\* exception a step raised), on which autosampler position or step, and whether the
\* call returned (for an exception: whether the step loop caught it)
Event(phase, op, arg, ok) == [phase |-> phase, op |-> op, arg |-> arg, ok |-> ok]

VARIABLES
    samples,          \* self.samples
    mainPc,           \* position of the thread that calls submit_samples / start_system
    ctrlPc,           \* position of the control thread (ThreadWithReturn running _run_system)
    terminate,        \* GraphicalInterface._terminate
    gui,              \* the tkinter root: "closed" (not in mainloop), "running", "destroyed"
    potentiostat,     \* self.potentiostat: "none", "connected", "disconnected"
    sampling_system,  \* self.sampling_system: "none", "connected", "disconnected"
    sampleIdx,        \* position of `for sample in self.samples`
    workflow,         \* the local `workflow` of _measure_sample
    stepIdx,          \* position of the step loop of _measure_sample
    result,           \* the local `result` of _measure_sample (header keys left out)
    results,          \* the local `results` of _run_system: sample name -> result object,
                      \* a result object being named by the index of the call that built it
    exc,              \* exception in flight in the control thread
    uncaught,         \* exception that left _run_system ("none" if none did)
    thread_return,    \* ThreadWithReturn._return
    retval,           \* what start_system returned
    trace,            \* history: hardware and dispatch events of the current sample
                      \* (and of the shutdown that follows the last one)
    cell_volume,      \* SamplingSystem._cell_volume, in units of 0.5 mL
    log,              \* messages WorkflowManager logged for the current sample, each with
                      \* the length of trace at the time it was logged
    \* one step executed on its own (_execute_step)
    stepDecl,         \* the step definition as the workflow file declares it
    stepLive,         \* the dictionary object of that definition, as it is now
    stepPrev,         \* the results of the previous steps, before the step
    stepOut,          \* what the step did
    stepPc,           \* "idle", "ready", "done", "next_step", "teardown", "returned", "raised"
    stepLeft,         \* how the sample's scope was left: the teardown and the exception
    \* one sample taken through the cell on its own (_sample_in_cell on a SamplingSystem)
    cellSettings,     \* the cell-lifecycle settings of the workflow file
    pump,             \* history of the pump and gas calls the SamplingSystem made
    cellPc,           \* "idle", "fill", "body", "empty", "done"
    \* one call of PulseTechniqueAnalyzer._get_peak_data
    picked,           \* the peaks scipy.find_peaks picked, in the order of their maxima
    peaks,            \* the list _get_peak_data returns
    peaksPc,          \* "idle", "ready", "done"
    \* one call of PulseTechniqueAnalyzer._get_cv_parameters
    cvConfig,         \* filters, selection, min_voltage, max_voltage, additional_voltage
    no_iteration,     \* number of iterations the loop has been through
    cv_parameters,    \* the local array cv_parameters
    cvTried,          \* history: how the try block of each iteration ended
    cvPc,             \* "idle", "loop", "done"
    \* one construction of a CVAnalyzer
    dataset,          \* the raw_data argument of the constructor
    raw_data,         \* self._raw_data
    cycle_iteration,  \* number of iterations the loop of _separate_cycles has been through
    cyclePc,          \* "idle", "init", "cycles", "done", "raised"
    \* one PulseTechniqueAnalyzer: construction and run_analysis
    analysis_settings,  \* the analysis_settings argument: its step names, in dictionary order
    analysis_steps,   \* self._analysis_steps: its step names, in dictionary order
    executed,         \* history: the analysis operations that were called
    analysisExc,      \* the exception that left the constructor or run_analysis
    analysisPc,       \* "idle", "new", "ready", "returned", "raised"
    \* one call of EChemController._run_single_measurement
    technique,        \* self.technique: "DPV" or a technique that keeps process_data
    acquired,         \* number of rows in the local `results`
    metadata,         \* what the last poll reported: rows delivered and status
    channel,          \* "idle", "started", "stopped"
    stops,            \* number of calls of stop_channel
    interrupted,      \* a KeyboardInterrupt has been raised
    pollExc,          \* the exception that left _run_single_measurement
    pollPc,           \* "idle", "open", "try", "handler", "exit", "returned", "raised"
    \* one call of DPV.process_data
    extracted_data,   \* the argument: rows of time, voltage, current
    processed_data,   \* what the call returned, or the exception it raised
    dpvPc,            \* "idle", "ready", "done"
    \* a caller that submits and starts more than once
    runs,             \* number of calls of start_system that started a control thread
    measured,         \* history: run and queue position of every _measure_sample call
    submitted,        \* the list given to the last submit_samples call
    queued_before,    \* self.samples when that call began
    submitExc,        \* the exception that call raised
    \* the sampling system under any sequence of calls
    volPc,            \* "idle", "between", "in_cell", "washing", "raised"
    lastCall,         \* the call on the sampling system that returned last
    washLeft,         \* the calls wash_cell has still to make on itself
    fill_volumes,     \* history: the tracked volume when the fill of each sample began
    cellCalls         \* calls made since the sample was filled in

vars == <<samples, mainPc, ctrlPc, terminate, gui, potentiostat, sampling_system,
          sampleIdx, workflow, stepIdx, result, results, exc, uncaught,
          thread_return, retval, trace, cell_volume, log,
          stepDecl, stepLive, stepPrev, stepOut, stepPc, stepLeft,
          cellSettings, pump, cellPc, picked, peaks, peaksPc,
          cvConfig, no_iteration, cv_parameters, cvTried, cvPc,
          dataset, raw_data, cycle_iteration, cyclePc,
          analysis_settings, analysis_steps, executed, analysisExc, analysisPc,
          technique, acquired, metadata, channel, stops, interrupted, pollExc, pollPc,
          extracted_data, processed_data, dpvPc,
          runs, measured, submitted, queued_before, submitExc,
          volPc, lastCall, washLeft, fill_volumes, cellCalls>>

mainVars == <<mainPc, gui, retval>>
ctrlVars == <<ctrlPc, potentiostat, sampling_system, sampleIdx, workflow, stepIdx,
              result, results, exc, uncaught, thread_return, trace, cell_volume, log>>
\* the engine without the tracked cell volume
engineVars == <<samples, mainPc, ctrlPc, terminate, gui, potentiostat, sampling_system,
                sampleIdx, workflow, stepIdx, result, results, exc, uncaught,
                thread_return, retval, trace, log>>
stepVars == <<stepDecl, stepLive, stepPrev, stepOut, stepPc, stepLeft>>
cellVars == <<cellSettings, pump, cellPc>>
peakVars == <<picked, peaks, peaksPc>>
cvVars == <<cvConfig, no_iteration, cv_parameters, cvTried, cvPc>>
cycleVars == <<dataset, raw_data, cycle_iteration, cyclePc>>
analysisVars == <<analysis_settings, analysis_steps, executed, analysisExc, analysisPc>>
pollVars == <<technique, acquired, metadata, channel, stops, interrupted, pollExc, pollPc>>
dpvVars == <<extracted_data, processed_data, dpvPc>>
runVars == <<runs, measured, submitted, queued_before, submitExc>>
volVars == <<volPc, lastCall, washLeft, fill_volumes, cellCalls>>
\* the components that are exercised on their own
unitVars == <<stepVars, cellVars, peakVars, cvVars, cycleVars, analysisVars, pollVars, dpvVars, runVars, volVars>>

\* the empty dictionary
EmptyDict == [x \in {} |-> 0]
NoneValue == [isNone |-> TRUE, val |-> EmptyDict]
Some(v) == [isNone |-> FALSE, val |-> v]

NoStep == [task |-> "none"]
NoOutcome == [exc |-> "none", results |-> EmptyDict, calls |-> << >>, cell_volume |-> 0,
              kwargs |-> NoStep]

\* WorkflowManager.__init__: nothing is connected, the queue is empty
EngineInit ==
    /\ samples = <<>>
    /\ mainPc = "idle"
    /\ ctrlPc = "none"
    /\ terminate = FALSE
    /\ gui = "closed"
    /\ potentiostat = "none"
    /\ sampling_system = "none"
    /\ sampleIdx = 0
    /\ workflow = NoWorkflow
    /\ stepIdx = 0
    /\ result = EmptyDict
    /\ results = EmptyDict
    /\ exc = "none"
    /\ uncaught = "none"
    /\ thread_return = NoneValue
    /\ retval = NoneValue
    /\ trace = <<>>
    /\ log = <<>>

\* no step is being executed on its own
\* the with block of _measure_sample has not been left
NotLeft == [teardown |-> "none", exc |-> "none"]

StepIdle ==
    /\ stepDecl = NoStep
    /\ stepLive = NoStep
    /\ stepPrev = EmptyDict
    /\ stepOut = NoOutcome
    /\ stepPc = "idle"
    /\ stepLeft = NotLeft

\* no sample is being taken through the cell on its own
CellIdle ==
    /\ cellSettings = EmptyDict
    /\ pump = << >>
    /\ cellPc = "idle"

\* no peak list is being built
PeaksIdle ==
    /\ picked = << >>
    /\ peaks = << >>
    /\ peaksPc = "idle"

\* no CV window is being inferred
CvIdle ==
    /\ cvConfig = EmptyDict
    /\ no_iteration = 0
    /\ cv_parameters = << >>
    /\ cvTried = << >>
    /\ cvPc = "idle"

\* a numpy array of rows and a Python list of items
Array(rows) == [kind |-> "ndarray", val |-> rows]
List(items) == [kind |-> "list", val |-> items]

\* no CVAnalyzer is being constructed
CyclesIdle ==
    /\ dataset = Array(<< >>)
    /\ raw_data = Array(<< >>)
    /\ cycle_iteration = 0
    /\ cyclePc = "idle"

\* no analyzer is being run
AnalysisIdle ==
    /\ analysis_settings = << >>
    /\ analysis_steps = << >>
    /\ executed = << >>
    /\ analysisExc = "none"
    /\ analysisPc = "idle"

NoPoll == [rows |-> 0, status |-> "none"]

\* no measurement is being polled
PollIdle ==
    /\ technique = "none"
    /\ acquired = 0
    /\ metadata = NoPoll
    /\ channel = "idle"
    /\ stops = 0
    /\ interrupted = FALSE
    /\ pollExc = "none"
    /\ pollPc = "idle"

NoData == [exc |-> "none", rows |-> << >>]

\* no differential-pulse data is being processed
DpvIdle ==
    /\ extracted_data = << >>
    /\ processed_data = NoData
    /\ dpvPc = "idle"

\* no sampling system on its own
VolumeIdle ==
    /\ volPc = "idle"
    /\ lastCall = "none"
    /\ washLeft = << >>
    /\ fill_volumes = << >>
    /\ cellCalls = 0

\* nothing has been submitted or started
RunsIdle ==
    /\ runs = 0
    /\ measured = << >>
    /\ submitted = << >>
    /\ queued_before = << >>
    /\ submitExc = "none"

Init ==
    /\ EngineInit
    /\ VolumeIdle
    /\ RunsIdle
    /\ DpvIdle
    /\ PollIdle
    /\ AnalysisIdle
    /\ CyclesIdle
    /\ cell_volume = 0
    /\ StepIdle
    /\ CellIdle
    /\ PeaksIdle
    /\ CvIdle

\* ------------------------------------------------------- sampling system

\* volumes are counted in units of 0.5 mL (the code draws 7.5 mL in one place)
Ml(v) == 2 * v

\* the settings file of the sampling system: the three special ports of the valve (the
\* autosampler positions are the ports 1, 2, ...), the dead volume of the line and the
\* volume of the syringe
SamplerConfig ==
    [cell_port |-> 7, wash_port |-> 8, waste_port |-> 9,
     dead_volume |-> 1, pump_volume |-> Ml(5)]

\* a SamplingSystem object: the tracked volume and the calls it made so far
Sampler(cv, calls) == [cell_volume |-> cv, pump |-> calls]

\* XCPump.draw_and_dispense(source, target, volume)
Draw(source, target, volume) ==
    [op |-> "draw_and_dispense", source |-> source, target |-> target, volume |-> volume]

\* _update_cell_volume
update_cell_volume(s, volume) == [s EXCEPT !.cell_volume = @ + volume]

\* transfer_to_cell(source_port, volume), wash_line = False
transfer_to_cell(s, source_port, volume) ==
    update_cell_volume(
        [s EXCEPT !.pump = Append(@, Draw(source_port, SamplerConfig.cell_port,
                                          volume + SamplerConfig.dead_volume))],
        volume)

\* variant: a volume of 0 is replaced by cell_volume * factor
dilute_cell_whole_factor(s, volume, factor) ==
    transfer_to_cell(s, SamplerConfig.wash_port,
                     IF volume = 0 THEN s.cell_volume * factor ELSE volume)

\* dilute_cell(volume=0, factor=1)
dilute_cell(s, volume, factor) ==
    transfer_to_cell(s, SamplerConfig.wash_port,
                     IF volume = 0 THEN s.cell_volume * (factor - 1) ELSE volume)

\* purge_cell(purge_time): the gas relay (written as port 0) is opened for purge_time
purge_cell(s, purge_time) ==
    [s EXCEPT !.pump = Append(@, [op |-> "purge", source |-> 0,
                                  target |-> SamplerConfig.cell_port, volume |-> purge_time])]

\* variant: the tracked volume is lowered by the volume the pump draws
empty_cell_by_drawn_volume(s) ==
    update_cell_volume(
        [s EXCEPT !.pump = Append(@, Draw(SamplerConfig.cell_port, SamplerConfig.waste_port,
                                          s.cell_volume + Ml(2)))],
        0 - (s.cell_volume + Ml(2)))

\* _empty_cell
empty_cell(s) ==
    update_cell_volume(
        [s EXCEPT !.pump = Append(@, Draw(SamplerConfig.cell_port, SamplerConfig.waste_port,
                                          s.cell_volume + Ml(2)))],
        0 - s.cell_volume)

\* _wash_pump(cycles)
RECURSIVE wash_pump(_, _)
wash_pump(s, cycles) ==
    IF cycles <= 0 THEN s
    ELSE wash_pump([s EXCEPT !.pump = Append(@, Draw(SamplerConfig.wash_port,
                                                     SamplerConfig.waste_port,
                                                     SamplerConfig.pump_volume))],
                   cycles - 1)

\* the loop of wash_autosampler_position
RECURSIVE RinseVial(_, _, _)
RinseVial(s, sampler_position, no_cycles) ==
    IF no_cycles <= 0 THEN s
    ELSE RinseVial([s EXCEPT !.pump = @ \o << Draw(SamplerConfig.wash_port, sampler_position, Ml(5)),
                                                Draw(sampler_position, SamplerConfig.waste_port, Ml(6)) >>],
                   sampler_position, no_cycles - 1)

\* wash_autosampler_position(sampler_position, no_cycles=3)
wash_autosampler_position(s, sampler_position, no_cycles) ==
    RinseVial(wash_pump([s EXCEPT !.pump = Append(@, Draw(sampler_position,
                                                          SamplerConfig.waste_port, 15))], 1),
              sampler_position, no_cycles)

\* the calls wash_cell makes on itself, in order: "empty" is _empty_cell, "transfer" is
\* transfer_to_cell from the wash port
RECURSIVE Repeat(_, _)
Repeat(seq, n) == IF n <= 0 THEN << >> ELSE seq \o Repeat(seq, n - 1)

WashCellCalls(wash_volume, cycles) ==
    << [call |-> "empty", volume |-> 0], [call |-> "transfer", volume |-> Ml(15)],
       [call |-> "empty", volume |-> 0] >>
    \o Repeat(<< [call |-> "transfer", volume |-> wash_volume],
                 [call |-> "empty", volume |-> 0] >>, cycles - 1)

\* the sampling system after the first n of these calls returned
RECURSIVE ApplyCalls(_, _, _)
ApplyCalls(s, calls, n) ==
    IF n <= 0 THEN s
    ELSE LET before == ApplyCalls(s, calls, n - 1) IN
         IF calls[n].call = "empty" THEN empty_cell(before)
         ELSE transfer_to_cell(before, SamplerConfig.wash_port, calls[n].volume)

\* wash_cell(wash_volume, cycles)
wash_cell(s, wash_volume, cycles) ==
    LET calls == WashCellCalls(wash_volume, cycles) IN ApplyCalls(s, calls, Len(calls))

\* the tracked volumes wash_cell can leave behind when one of its pump calls raises
WashCellVolumes(s, wash_volume, cycles) ==
    LET calls == WashCellCalls(wash_volume, cycles) IN
    { ApplyCalls(s, calls, n).cell_volume : n \in 0..(Len(calls) - 1) }

\* _sample_in_cell up to the yield, on the sampling system
SampleInCellEnter(s, st) ==
    purge_cell(dilute_cell(transfer_to_cell(s, st.autosampler_position, st.sample_volume),
                           st.total_volume - st.sample_volume, 1),
               st.purge_time)

\* _sample_in_cell, the finally block, on the sampling system
SampleInCellExit(s, st) ==
    wash_cell(IF st.discard_sample
              THEN wash_autosampler_position(s, st.autosampler_position, 3)
              ELSE s,
              st.wash_volume, st.washing_cycles)

\* the cell-lifecycle settings of the workflow file the engine runs: 2 mL of sample
\* made up to 5 mL, the cell washed three times with 5 mL
WorkflowCell ==
    [sample_volume |-> Ml(2), total_volume |-> Ml(5), purge_time |-> 10,
     wash_volume |-> Ml(5), washing_cycles |-> 3]

\* the tracked volume when the first k of transfer, dilute, purge have returned
FillVolume(cv, autosampler_position, st, k) ==
    LET s1 == transfer_to_cell(Sampler(cv, << >>), autosampler_position, st.sample_volume)
        s2 == dilute_cell(s1, st.total_volume - st.sample_volume, 1)
    IN IF k = 0 THEN cv ELSE IF k = 1 THEN s1.cell_volume ELSE s2.cell_volume

\* the tracked volumes possible when the first k teardown calls have returned
TeardownVolumes(cv, ops, k, st) ==
    IF k = Len(ops)
    THEN { wash_cell(Sampler(cv, << >>), st.wash_volume, st.washing_cycles).cell_volume }
    ELSE IF ops[k + 1].op = "wash_cell"
    THEN WashCellVolumes(Sampler(cv, << >>), st.wash_volume, st.washing_cycles)
    ELSE { cv }

\* a log record: the message, the step it is about (0: none) and the length of the
\* history when it was written
Log(msg, step, at) == [msg |-> msg, step |-> step, at |-> at]

\* ------------------------------------------------------- pure functions

\* WorkflowManager._exception_keywords
exception_keywords == [SKIP |-> "SkipExecution", STOP |-> "StopExecution"]

\* variant: an incomplete sample is left out and the loop goes on with the next
RECURSIVE SubmitLoopSkipsIncomplete(_, _)
SubmitLoopSkipsIncomplete(queue, list) ==
    IF list = <<>> THEN [queue |-> queue, exc |-> "none"]
    ELSE IF RequiredSampleKeys \subseteq DOMAIN Head(list)
         THEN SubmitLoopSkipsIncomplete(Append(queue, Head(list)), Tail(list))
         ELSE [queue |-> SubmitLoopSkipsIncomplete(queue, Tail(list)).queue, exc |-> "KeyError"]

\* submit_samples: the loop over the submitted list
RECURSIVE SubmitLoop(_, _)
SubmitLoop(queue, list) ==
    IF list = <<>> THEN [queue |-> queue, exc |-> "none"]
    ELSE IF RequiredSampleKeys \subseteq DOMAIN Head(list)
         THEN SubmitLoop(Append(queue, Head(list)), Tail(list))
         ELSE [queue |-> queue, exc |-> "KeyError"]

\* variant: start_system without the check of the queue
HasSamplesNoCheck(queue) == TRUE

\* start_system: `if not self.samples: raise ValueError`
HasSamples(queue) == queue # <<>>

\* variant: the queue is visited back to front
SampleAtReversed(queue, i) == queue[Len(queue) + 1 - i]

\* _run_system: `for sample in self.samples` visits the queue front to back
SampleAt(queue, i) == queue[i]

\* variant: no look at _exception_keywords, every value found is stored
RECURSIVE UpdateParametersNoKeywords(_, _, _)
UpdateParametersNoKeywords(update_settings, parameters, previous_results) ==
    IF update_settings = <<>> THEN [exc |-> "none", parameters |-> parameters]
    ELSE LET param_to_update == Head(update_settings) IN
         IF param_to_update.from \notin DOMAIN previous_results
         THEN [exc |-> "KeyError", parameters |-> parameters]
         ELSE IF param_to_update.key \notin DOMAIN previous_results[param_to_update.from]
         THEN [exc |-> "KeyError", parameters |-> parameters]
         ELSE LET new_value == previous_results[param_to_update.from][param_to_update.key] IN
              UpdateParametersNoKeywords(Tail(update_settings),
                                         (param_to_update.parameter :> new_value) @@ parameters,
                                         previous_results)

\* variant: the value is stored under the name of the result key
RECURSIVE UpdateParametersUnderKey(_, _, _)
UpdateParametersUnderKey(update_settings, parameters, previous_results) ==
    IF update_settings = <<>> THEN [exc |-> "none", parameters |-> parameters]
    ELSE LET param_to_update == Head(update_settings) IN
         IF param_to_update.from \notin DOMAIN previous_results
         THEN [exc |-> "KeyError", parameters |-> parameters]
         ELSE IF param_to_update.key \notin DOMAIN previous_results[param_to_update.from]
         THEN [exc |-> "KeyError", parameters |-> parameters]
         ELSE LET new_value == previous_results[param_to_update.from][param_to_update.key] IN
              IF new_value.type = "str" /\ new_value.val \in DOMAIN exception_keywords
              THEN [exc |-> exception_keywords[new_value.val], parameters |-> parameters]
              ELSE UpdateParametersUnderKey(Tail(update_settings),
                                            (param_to_update.key :> new_value) @@ parameters,
                                            previous_results)

\* variant: an entry that cannot be looked up makes the step skip
RECURSIVE UpdateParametersMissingSkips(_, _, _)
UpdateParametersMissingSkips(update_settings, parameters, previous_results) ==
    IF update_settings = <<>> THEN [exc |-> "none", parameters |-> parameters]
    ELSE LET param_to_update == Head(update_settings) IN
         IF param_to_update.from \notin DOMAIN previous_results
         THEN [exc |-> "SkipExecution", parameters |-> parameters]
         ELSE IF param_to_update.key \notin DOMAIN previous_results[param_to_update.from]
         THEN [exc |-> "SkipExecution", parameters |-> parameters]
         ELSE LET new_value == previous_results[param_to_update.from][param_to_update.key] IN
              IF new_value.type = "str" /\ new_value.val \in DOMAIN exception_keywords
              THEN [exc |-> exception_keywords[new_value.val], parameters |-> parameters]
              ELSE UpdateParametersMissingSkips(Tail(update_settings),
                                    (param_to_update.parameter :> new_value) @@ parameters,
                                    previous_results)

\* _update_parameters: returns the exception raised (or "none") and the parameters
\* dictionary as the loop left it
RECURSIVE UpdateParameters(_, _, _)
UpdateParameters(update_settings, parameters, previous_results) ==
    IF update_settings = <<>> THEN [exc |-> "none", parameters |-> parameters]
    ELSE LET param_to_update == Head(update_settings) IN
         IF param_to_update.from \notin DOMAIN previous_results
         THEN [exc |-> "KeyError", parameters |-> parameters]
         ELSE IF param_to_update.key \notin DOMAIN previous_results[param_to_update.from]
         THEN [exc |-> "KeyError", parameters |-> parameters]
         ELSE LET new_value == previous_results[param_to_update.from][param_to_update.key] IN
              IF new_value.type = "str" /\ new_value.val \in DOMAIN exception_keywords
              THEN [exc |-> exception_keywords[new_value.val], parameters |-> parameters]
              ELSE UpdateParameters(Tail(update_settings),
                                    (param_to_update.parameter :> new_value) @@ parameters,
                                    previous_results)

\* run_measurement: the possible outcomes of one measure step.  `calls` are the
\* instrument calls it made; do_measurement and the analysis may raise.
\* `kwargs` of an outcome is the step definition as the call left it: the dictionary
\* `parameters` handed to _update_parameters is the one of the definition.
RunMeasurement(step_idx, step_name, previous_results, kwargs, cv) ==
    LET upd == IF kwargs.update_parameters # <<>>
               THEN UpdateParameters(kwargs.update_parameters, kwargs.parameters, previous_results)
               ELSE [exc |-> "none", parameters |-> kwargs.parameters]
        left == [kwargs EXCEPT !.parameters = upd.parameters]
    IN IF upd.exc # "none"
       THEN { [exc |-> upd.exc, results |-> previous_results, calls |-> <<>>,
               cell_volume |-> cv, kwargs |-> left] }
       ELSE { [exc |-> "HardwareError", results |-> previous_results,
               calls |-> <<Event("steps", "do_measurement", step_idx, FALSE)>>,
               cell_volume |-> cv, kwargs |-> left] }
            \cup { [exc |-> "none", results |-> (step_name :> e) @@ previous_results,
                    calls |-> <<Event("steps", "do_measurement", step_idx, TRUE)>>,
                    cell_volume |-> cv, kwargs |-> left] : e \in Entries }

\* SamplingSystem.dilute_cell(volume=0, factor=1) accepts these keywords only
DiluteCellParams == {"volume", "factor"}

\* _dilute_cell: passes every keyword it was given on to SamplingSystem.dilute_cell
DiluteCell(step_idx, step_name, previous_results, kwargs, cv) ==
    IF ~(DOMAIN kwargs \subseteq DiluteCellParams)
    THEN { [exc |-> "TypeError", results |-> previous_results, calls |-> <<>>,
            cell_volume |-> cv, kwargs |-> kwargs] }
    ELSE { [exc |-> "HardwareError", results |-> previous_results,
            calls |-> <<Event("steps", "dilute_cell", step_idx, FALSE)>>,
            cell_volume |-> cv, kwargs |-> kwargs],
           [exc |-> "none",
            results |-> ("dilution" :> [type |-> "bool", val |-> "True"]) @@ previous_results,
            calls |-> <<Event("steps", "dilute_cell", step_idx, TRUE)>>,
            cell_volume |-> dilute_cell(Sampler(cv, << >>),
                                        IF "volume" \in DOMAIN kwargs THEN kwargs.volume ELSE 0,
                                        IF "factor" \in DOMAIN kwargs THEN kwargs.factor ELSE 1
                                       ).cell_volume,
            kwargs |-> kwargs] }

\* _execute_step: dispatch on the task kind; the whole step definition is passed on
ExecuteStepOutcomes(step_idx, step_name, previous_results, step_details, cv) ==
    IF step_details.task = "measure"
    THEN RunMeasurement(step_idx, step_name, previous_results, step_details, cv)
    ELSE IF step_details.task = "dilute"
    THEN DiluteCell(step_idx, step_name, previous_results, step_details, cv)
    ELSE { [exc |-> "KeyError", results |-> previous_results, calls |-> <<>>,
            cell_volume |-> cv, kwargs |-> step_details] }

\* variant: `except SkipExecution` leaves the step loop
StepHandlerSkipBreaks(e) ==
    CASE e = "none" -> "next"
      [] e = "SkipExecution" -> "break"
      [] e = "StopExecution" -> "break"
      [] OTHER -> "propagate"

\* variant: `except StopExecution` goes on with the next step
StepHandlerStopContinues(e) ==
    CASE e = "none" -> "next"
      [] e = "SkipExecution" -> "continue"
      [] e = "StopExecution" -> "continue"
      [] OTHER -> "propagate"

\* variant: a bare `except: continue` around _execute_step
StepHandlerCatchAll(e) ==
    CASE e = "none" -> "next"
      [] e = "StopExecution" -> "break"
      [] OTHER -> "continue"

\* variant: no `except StopExecution` clause
StepHandlerStopPropagates(e) ==
    CASE e = "none" -> "next"
      [] e = "SkipExecution" -> "continue"
      [] OTHER -> "propagate"

\* _measure_sample: the except clauses around _execute_step
StepHandler(e) ==
    CASE e = "none" -> "next"
      [] e = "SkipExecution" -> "continue"
      [] e = "StopExecution" -> "break"
      [] OTHER -> "propagate"

\* the calls of a list of operations of which the first k return and the next raises
RunOps(ops, k) ==
    [i \in 1..(IF k < Len(ops) THEN k + 1 ELSE Len(ops)) |-> [ops[i] EXCEPT !.ok = (i <= k)]]

\* _sample_in_cell before the yield
FillOps(sample) ==
    << Event("fill", "transfer_to_cell", sample.sample_location, TRUE),
       Event("fill", "dilute_cell", 0, TRUE),
       Event("fill", "purge_cell", 0, TRUE) >>

\* variant: the teardown follows the yield without try/finally
TeardownOpsNoFinally(discard_sample, sample, e) ==
    IF e # "none" THEN << >>
    ELSE (IF discard_sample
          THEN << Event("empty", "wash_autosampler_position", sample.sample_location, TRUE) >>
          ELSE << >>)
         \o << Event("empty", "wash_cell", 0, TRUE) >>

\* _sample_in_cell, the finally block; e is the exception in flight when the body ended
TeardownOps(discard_sample, sample, e) ==
    (IF discard_sample
     THEN << Event("empty", "wash_autosampler_position", sample.sample_location, TRUE) >>
     ELSE << >>)
    \o << Event("empty", "wash_cell", 0, TRUE) >>

\* variant: the GUI is told to stop before the hardware is released
ShutdownOpsStopFirst ==
    << Event("shutdown", "stop_gui", 0, TRUE),
       Event("shutdown", "dilute_cell", 0, TRUE),
       Event("shutdown", "potentiostat_disconnect", 0, TRUE),
       Event("shutdown", "sampling_disconnect", 0, TRUE) >>

\* shutdown_system(fill_cell=True)
ShutdownOps ==
    << Event("shutdown", "dilute_cell", 0, TRUE),
       Event("shutdown", "potentiostat_disconnect", 0, TRUE),
       Event("shutdown", "sampling_disconnect", 0, TRUE),
       Event("shutdown", "stop_gui", 0, TRUE) >>

\* ThreadWithReturn.join: threading.Thread.join returns once run() has ended
ThreadEnded(pc) == pc \in {"finished", "failed"}

Returned(ops, k, op) == \E i \in 1..k : ops[i].op = op

\* ------------------------------------------------------------- main thread

\* submit_samples(list)
SubmitSamples ==
    /\ mainPc = "idle"
    /\ \E list \in BoundedSeq(SampleInputs, MaxSamples) :
          /\ list # <<>>
          /\ Len(samples) + Len(list) <= MaxSamples
          /\ samples' = SubmitLoop(samples, list).queue
    /\ UNCHANGED <<mainVars, ctrlVars, terminate, unitVars>>

\* start_system up to the first _check_for_termination of start_gui
StartSystem ==
    /\ mainPc = "idle"
    /\ IF ~HasSamples(samples)
       THEN /\ mainPc' = "raised"
            /\ UNCHANGED <<gui, ctrlPc>>
       ELSE /\ ctrlPc' = "init"
            /\ IF terminate
               THEN gui' = "destroyed" /\ mainPc' = "join"
               ELSE gui' = "running" /\ mainPc' = "gui"
    /\ UNCHANGED <<samples, terminate, retval, potentiostat, sampling_system, sampleIdx,
                   workflow, stepIdx, result, results, exc, uncaught, thread_return, trace,
                   cell_volume, log, unitVars>>

\* variant: the GUI callback also resets the tracked cell volume
CheckForTerminationResetsVolume ==
    /\ mainPc = "gui"
    /\ IF terminate
       THEN gui' = "destroyed" /\ mainPc' = "join"
       ELSE UNCHANGED <<gui, mainPc>>
    /\ cell_volume' = 0
    /\ UNCHANGED <<samples, terminate, retval, ctrlPc, potentiostat, sampling_system, sampleIdx,
                   workflow, stepIdx, result, results, exc, uncaught, thread_return, trace,
                   log, unitVars>>

\* _check_for_termination, rescheduled every refresh interval while the GUI runs
CheckForTermination ==
    /\ mainPc = "gui"
    /\ IF terminate
       THEN gui' = "destroyed" /\ mainPc' = "join"
       ELSE UNCHANGED <<gui, mainPc>>
    /\ UNCHANGED <<samples, terminate, retval, ctrlVars, unitVars>>

\* measurements.join() and the return of start_system
Join ==
    /\ mainPc = "join"
    /\ ThreadEnded(ctrlPc)
    /\ retval' = thread_return
    /\ mainPc' = "returned"
    /\ UNCHANGED <<samples, terminate, gui, ctrlVars, unitVars>>

\* ---------------------------------------------------------- control thread

\* an exception leaves _run_system: the thread dies (the locals keep their last value)
Fail(e) ==
    /\ ctrlPc' = "failed"
    /\ uncaught' = e
    /\ exc' = "none"
    /\ UNCHANGED <<workflow, stepIdx, result>>

\* initialize_system: EChemController(...), then SamplingSystem(...)
InitializeSystem ==
    /\ ctrlPc = "init"
    /\ \/ /\ potentiostat' = "connected"
          /\ sampling_system' = "connected"
          /\ cell_volume' = empty_cell(Sampler(Ml(5), << >>)).cell_volume
          /\ ctrlPc' = "loop"
          /\ UNCHANGED <<uncaught, exc, workflow, stepIdx, result>>
       \/ /\ Fail("ConnectionError")
          /\ UNCHANGED <<potentiostat, sampling_system, cell_volume>>
       \/ /\ Fail("HardwareError")
          /\ potentiostat' = "connected"
          /\ UNCHANGED <<sampling_system, cell_volume>>
    /\ UNCHANGED <<samples, mainVars, terminate, sampleIdx, results, thread_return, trace,
                   log, unitVars>>

\* _run_system takes the next sample; _measure_sample loads its workflow file
MeasureSampleBegin ==
    /\ ctrlPc = "loop"
    /\ sampleIdx < Len(samples)
    /\ sampleIdx' = sampleIdx + 1
    /\ trace' = <<>>
    /\ \/ \E wf \in Workflows :
             /\ workflow' = wf
             /\ result' = EmptyDict
             /\ stepIdx' = 1
             /\ ctrlPc' = "fill"
             /\ log' = << Log("Starting Protocol", 0, 0) >>
             /\ UNCHANGED <<uncaught, exc>>
       \/ Fail("ValueError") /\ log' = << >>
    /\ UNCHANGED <<samples, mainVars, terminate, potentiostat, sampling_system, results,
                   thread_return, cell_volume, unitVars>>

\* _sample_in_cell up to the yield: transfer, dilute, purge
FillingCell ==
    /\ ctrlPc = "fill"
    /\ LET sample == SampleAt(samples, sampleIdx)
           ops == FillOps(sample) IN
       \E k \in 0..Len(ops) :
          /\ trace' = trace \o RunOps(ops, k)
          /\ cell_volume' = FillVolume(cell_volume, sample.sample_location, WorkflowCell, k)
          /\ log' = IF k >= 2
                    THEN Append(log, Log("Sample was successfully transferred", 0, Len(trace) + 2))
                    ELSE log
          /\ IF k = Len(ops)
             THEN ctrlPc' = "steps" /\ UNCHANGED <<uncaught, exc, workflow, stepIdx, result>>
             ELSE Fail("HardwareError")
    /\ UNCHANGED <<samples, mainVars, terminate, potentiostat, sampling_system, sampleIdx,
                   results, thread_return, unitVars>>

\* one iteration of the step loop of _measure_sample
ExecuteStep ==
    /\ ctrlPc = "steps"
    /\ stepIdx <= workflow.nSteps
    /\ \E step_details \in StepDefs :
       \E o \in ExecuteStepOutcomes(stepIdx, StepNames[stepIdx], result, step_details,
                                    cell_volume) :
          LET h == StepHandler(o.exc) IN
          /\ trace' = trace \o << Event("steps", step_details.task, stepIdx, TRUE) >> \o o.calls
                            \o (IF o.exc = "none" THEN << >>
                                ELSE << Event("steps", o.exc, stepIdx, h # "propagate") >>)
          /\ log' = log \o << Log("Now executing", stepIdx, Len(trace)) >>
                        \o (IF o.exc = "SkipExecution" /\ h = "continue"
                            THEN << Log("Execution will be skipped", stepIdx, Len(trace')) >>
                            ELSE << >>)
          /\ cell_volume' = o.cell_volume
          /\ result' = o.results
          /\ stepIdx' = IF h \in {"next", "continue"} THEN stepIdx + 1 ELSE stepIdx
          /\ ctrlPc' = IF h \in {"next", "continue"} THEN "steps" ELSE "empty"
          /\ exc' = IF h = "propagate" THEN o.exc ELSE "none"
    /\ UNCHANGED <<samples, mainVars, terminate, potentiostat, sampling_system, sampleIdx,
                   workflow, results, uncaught, thread_return, unitVars>>

\* the step loop has no step left
StepsExhausted ==
    /\ ctrlPc = "steps"
    /\ stepIdx > workflow.nSteps
    /\ ctrlPc' = "empty"
    /\ UNCHANGED <<samples, mainVars, terminate, potentiostat, sampling_system, sampleIdx,
                   workflow, stepIdx, result, results, exc, uncaught, thread_return, trace,
                   cell_volume, log, unitVars>>

\* the exit of the with block: the finally block of _sample_in_cell, then either the
\* exception in flight goes on or _measure_sample returns and _run_system stores the result
EmptyingCell ==
    /\ ctrlPc = "empty"
    /\ LET sample == SampleAt(samples, sampleIdx)
           ops == TeardownOps(workflow.discard, sample, exc) IN
       \E k \in 0..Len(ops) :
          /\ trace' = trace \o RunOps(ops, k)
          /\ log' = Append(log, Log("Measurements for sample completed", 0, Len(trace)))
          /\ \E v \in TeardownVolumes(cell_volume, ops, k, WorkflowCell) : cell_volume' = v
          /\ IF k < Len(ops) THEN Fail("HardwareError") /\ UNCHANGED results
             ELSE IF exc # "none" THEN Fail(exc) /\ UNCHANGED results
             ELSE /\ results' = (sample.sample_name :> sampleIdx) @@ results
                  /\ ctrlPc' = "loop"
                  /\ UNCHANGED <<uncaught, exc, workflow, stepIdx, result>>
    /\ UNCHANGED <<samples, mainVars, terminate, potentiostat, sampling_system, sampleIdx,
                   thread_return, unitVars>>

\* the sample loop of _run_system is exhausted
SamplesExhausted ==
    /\ ctrlPc = "loop"
    /\ sampleIdx >= Len(samples)
    /\ ctrlPc' = "shutdown"
    /\ UNCHANGED <<samples, mainVars, terminate, potentiostat, sampling_system, sampleIdx,
                   workflow, stepIdx, result, results, exc, uncaught, thread_return, trace,
                   cell_volume, log, unitVars>>

\* shutdown_system: protective fill, disconnect both, stop_gui
ShutdownSystem ==
    /\ ctrlPc = "shutdown"
    /\ LET ops == ShutdownOps IN
       \E k \in 0..Len(ops) :
          /\ k < Len(ops) => ops[k + 1].op # "stop_gui"
          /\ \E o \in DiluteCell(0, "shutdown", EmptyDict, [volume |-> Ml(5)], cell_volume) :
                /\ (k >= 1) <=> (o.exc = "none")
                /\ cell_volume' = o.cell_volume
          /\ trace' = trace \o RunOps(ops, k)
          /\ potentiostat' = IF Returned(ops, k, "potentiostat_disconnect")
                             THEN "disconnected" ELSE potentiostat
          /\ sampling_system' = IF Returned(ops, k, "sampling_disconnect")
                                THEN "disconnected" ELSE sampling_system
          /\ terminate' = (terminate \/ Returned(ops, k, "stop_gui"))
          /\ IF k = Len(ops)
             THEN ctrlPc' = "return" /\ UNCHANGED <<uncaught, exc, workflow, stepIdx, result>>
             ELSE Fail("HardwareError")
    /\ UNCHANGED <<samples, mainVars, sampleIdx, results, thread_return, log, unitVars>>

\* `return results` of _run_system, stored by ThreadWithReturn.run
RunSystemReturn ==
    /\ ctrlPc = "return"
    /\ thread_return' = Some(results)
    /\ ctrlPc' = "finished"
    /\ UNCHANGED <<samples, mainVars, terminate, potentiostat, sampling_system, sampleIdx,
                   workflow, stepIdx, result, results, exc, uncaught, trace, cell_volume, log,
                   unitVars>>

Next ==
    \/ SubmitSamples
    \/ StartSystem
    \/ CheckForTermination
    \/ Join
    \/ InitializeSystem
    \/ MeasureSampleBegin
    \/ FillingCell
    \/ ExecuteStep
    \/ StepsExhausted
    \/ EmptyingCell
    \/ SamplesExhausted
    \/ ShutdownSystem
    \/ RunSystemReturn

Spec == Init /\ [][Next]_vars

TypeOK ==
    /\ mainPc \in {"idle", "raised", "gui", "join", "returned"}
    /\ ctrlPc \in {"none", "init", "loop", "fill", "steps", "empty", "shutdown", "return",
                   "finished", "failed"}
    /\ sampleIdx \in 0..Len(samples)
    /\ Len(samples) <= MaxSamples

\* ------------------------------------ repeated submissions and runs

\* a sample without workflow_path
IncompleteSample == [sample_name |-> "C", sample_location |-> 1]

SubmittedLists == BoundedSeq(SampleInputs \cup {IncompleteSample}, MaxSamples) \ { << >> }

\* variant: the queue is emptied when the loop over it is through
QueueAfterLoopCleared(queue) == << >>

\* _run_system: `for sample in self.samples` takes nothing out of the queue
QueueAfterLoop(queue) == queue

engineRest == <<potentiostat, sampling_system, workflow, stepIdx, result, exc, uncaught,
                thread_return, retval, trace, cell_volume, log>>

\* the caller is not inside start_system and no control thread is running
CallerFree ==
    /\ mainPc \in {"idle", "returned", "raised"}
    /\ ctrlPc \in {"none", "finished", "failed"}

\* submit_samples(list); a KeyError goes to the caller, who carries on
CallerSubmit ==
    /\ CallerFree
    /\ \E list \in SubmittedLists :
          /\ Len(samples) + Len(list) <= MaxSamples + 1
          /\ samples' = SubmitLoop(samples, list).queue
          /\ submitExc' = SubmitLoop(samples, list).exc
          /\ submitted' = list
          /\ queued_before' = samples
    /\ UNCHANGED <<mainPc, ctrlPc, gui, terminate, sampleIdx, results, runs, measured,
                   engineRest, stepVars, cellVars, peakVars, cvVars, cycleVars, analysisVars,
                   pollVars, dpvVars, volVars>>

\* start_system up to the first _check_for_termination of start_gui. The GUI of the
\* manager is built once: after a run that ended it, _terminate is still set and
\* _check_for_termination calls destroy() on the destroyed root, which raises
CallerStart ==
    /\ CallerFree
    /\ runs < MaxRuns
    /\ IF ~HasSamples(samples)
       THEN /\ mainPc' = "raised"
            /\ UNCHANGED <<gui, ctrlPc, runs, sampleIdx, results, engineRest>>
       ELSE /\ ctrlPc' = "init"
            /\ runs' = runs + 1
            /\ sampleIdx' = 0
            /\ results' = EmptyDict
            /\ uncaught' = "none"
            /\ thread_return' = NoneValue
            /\ trace' = << >>
            /\ IF gui = "destroyed"
               THEN mainPc' = "raised" /\ UNCHANGED gui
               ELSE IF terminate
                    THEN gui' = "destroyed" /\ mainPc' = "join"
                    ELSE gui' = "running" /\ mainPc' = "gui"
            /\ UNCHANGED <<potentiostat, sampling_system, workflow, stepIdx, result, exc,
                           retval, cell_volume, log>>
    /\ UNCHANGED <<samples, terminate, measured, submitted, queued_before, submitExc,
                   stepVars, cellVars, peakVars, cvVars, cycleVars, analysisVars, pollVars,
                   dpvVars, volVars>>

\* one pass of `for sample in self.samples`: _measure_sample returns the result of
\* the sample or raises
MeasureSample ==
    /\ ctrlPc = "loop"
    /\ sampleIdx < Len(samples)
    /\ sampleIdx' = sampleIdx + 1
    /\ measured' = Append(measured, [run |-> runs, position |-> sampleIdx + 1])
    /\ \/ /\ results' = (SampleAt(samples, sampleIdx + 1).sample_name :> (sampleIdx + 1))
                            @@ results
          /\ UNCHANGED <<ctrlPc, uncaught>>
       \/ /\ ctrlPc' = "failed"
          /\ uncaught' = "HardwareError"
          /\ UNCHANGED results
    /\ UNCHANGED <<samples, mainVars, terminate, potentiostat, sampling_system, workflow,
                   stepIdx, result, exc, thread_return, trace, cell_volume, log, runs,
                   submitted, queued_before, submitExc, stepVars, cellVars, peakVars, cvVars,
                   cycleVars, analysisVars, pollVars, dpvVars, volVars>>

\* the loop over the queue is through
LoopDone ==
    /\ ctrlPc = "loop"
    /\ sampleIdx >= Len(samples)
    /\ samples' = QueueAfterLoop(samples)
    /\ ctrlPc' = "shutdown"
    /\ trace' = << >>
    /\ UNCHANGED <<mainVars, terminate, potentiostat, sampling_system, sampleIdx, workflow,
                   stepIdx, result, results, exc, uncaught, thread_return, cell_volume, log,
                   unitVars>>

NextRuns ==
    \/ CallerSubmit
    \/ CallerStart
    \/ CheckForTermination
    \/ Join
    \/ InitializeSystem
    \/ MeasureSample
    \/ LoopDone
    \/ ShutdownSystem
    \/ RunSystemReturn

SpecRuns == Init /\ [][NextRuns]_vars

\* ------------------------------------------------- one step on its own

\* the results of the steps before the one executed: any of the earlier steps may have
\* an entry
PreviousResults ==
    UNION { [D -> Entries] : D \in SUBSET { StepNames[j] : j \in 1..MaxSteps } }

\* _execute_step is about to be called for the last step of a workflow
InitStep ==
    /\ EngineInit
    /\ VolumeIdle
    /\ RunsIdle
    /\ DpvIdle
    /\ PollIdle
    /\ AnalysisIdle
    /\ CyclesIdle
    /\ cell_volume = 0
    /\ CellIdle
    /\ PeaksIdle
    /\ CvIdle
    /\ stepDecl \in StepDefs
    /\ stepLive = stepDecl
    /\ stepPrev \in PreviousResults
    /\ stepOut = NoOutcome
    /\ stepPc = "ready"
    /\ stepLeft = NotLeft

\* _execute_step(sample_name, step_name, previous_results, **step_details)
StepExecute ==
    /\ stepPc = "ready"
    /\ \E o \in ExecuteStepOutcomes(MaxSteps + 1, StepNames[MaxSteps + 1], stepPrev, stepLive,
                                    cell_volume) :
          /\ stepOut' = o
          /\ stepLive' = o.kwargs
    /\ stepPc' = "done"
    /\ UNCHANGED <<stepDecl, stepPrev, stepLeft, engineVars, cell_volume, cellVars, peakVars, cvVars,
                   cycleVars, analysisVars, pollVars, dpvVars, runVars, volVars>>

\* _measure_sample: the except clauses around the call decide whether the step loop
\* goes on with the remaining steps or the with block is left
StepLoop ==
    /\ stepPc = "done"
    /\ stepPc' = IF StepHandler(stepOut.exc) \in {"next", "continue"}
                 THEN "next_step" ELSE "teardown"
    /\ UNCHANGED <<stepDecl, stepLive, stepPrev, stepOut, stepLeft, engineVars, cell_volume,
                   cellVars, peakVars, cvVars, cycleVars, analysisVars, pollVars, dpvVars,
                   runVars, volVars>>

\* the finally block of _sample_in_cell runs; then an exception of the teardown, else
\* the exception in flight, leaves _measure_sample, or the result is returned
StepTeardown ==
    /\ stepPc = "teardown"
    /\ \E ok \in BOOLEAN :
          LET e == IF ~ok THEN "HardwareError"
                   ELSE IF StepHandler(stepOut.exc) = "propagate" THEN stepOut.exc
                   ELSE "none" IN
          /\ stepLeft' = [teardown |-> IF ok THEN "returned" ELSE "raised", exc |-> e]
          /\ stepPc' = IF e = "none" THEN "returned" ELSE "raised"
    /\ UNCHANGED <<stepDecl, stepLive, stepPrev, stepOut, engineVars, cell_volume,
                   cellVars, peakVars, cvVars, cycleVars, analysisVars, pollVars, dpvVars,
                   runVars, volVars>>

NextStep == StepExecute \/ StepLoop \/ StepTeardown

SpecStep == InitStep /\ [][NextStep]_vars

\* ------------------------------------------- one sample through the cell

\* the cell-lifecycle settings a workflow file may declare (a sample volume not above
\* the total volume; 0 washing cycles included), for a sample at either position
CellSettingsSet ==
    { st \in [autosampler_position : {1, 2},
              sample_volume : { Ml(v) : v \in 1..MaxVolume },
              total_volume : { Ml(v) : v \in 1..MaxVolume },
              purge_time : {10},
              discard_sample : BOOLEAN,
              wash_volume : {Ml(5)},
              washing_cycles : 0..MaxCycles] :
         st.sample_volume <= st.total_volume }

\* the sampling system is initialized (the cell was emptied) and _sample_in_cell is
\* about to be entered
InitCell ==
    /\ EngineInit
    /\ VolumeIdle
    /\ RunsIdle
    /\ DpvIdle
    /\ PollIdle
    /\ AnalysisIdle
    /\ CyclesIdle
    /\ StepIdle
    /\ PeaksIdle
    /\ CvIdle
    /\ cellSettings \in CellSettingsSet
    /\ cell_volume = empty_cell(Sampler(Ml(5), << >>)).cell_volume
    /\ pump = << >>
    /\ cellPc = "fill"

\* _sample_in_cell up to the yield
CellFill ==
    /\ cellPc = "fill"
    /\ LET s == SampleInCellEnter(Sampler(cell_volume, pump), cellSettings) IN
       /\ cell_volume' = s.cell_volume
       /\ pump' = s.pump
    /\ cellPc' = "body"
    /\ UNCHANGED <<cellSettings, engineVars, stepVars, peakVars, cvVars, cycleVars, analysisVars,
                   pollVars, dpvVars, runVars, volVars>>

\* the with body ends; the finally block of _sample_in_cell
CellEmpty ==
    /\ cellPc = "body"
    /\ LET s == SampleInCellExit(Sampler(cell_volume, pump), cellSettings) IN
       /\ cell_volume' = s.cell_volume
       /\ pump' = s.pump
    /\ cellPc' = "done"
    /\ UNCHANGED <<cellSettings, engineVars, stepVars, peakVars, cvVars, cycleVars, analysisVars,
                   pollVars, dpvVars, runVars, volVars>>

NextCell == CellFill \/ CellEmpty

SpecCell == InitCell /\ [][NextCell]_vars

\* ------------------------------- the tracked volume under any calls

\* non-negative volumes (0 included) and dilution factors of at least 1
Volumes == { Ml(v) : v \in 0..MaxVolume }
Factors == 1..MaxFactor

\* the fill settings a workflow may declare; the total volume may be below the sample
\* volume, the dilution of the fill then gets a negative volume
FillSettings == [sample_volume : Volumes, total_volume : Volumes]

\* the wash settings a workflow may declare
WashSettings == [wash_volume : {Ml(5)}, washing_cycles : 0..MaxCycles]

InitVolume ==
    /\ Init

volRest == <<engineVars, stepVars, cellVars, peakVars, cvVars, cycleVars, analysisVars,
             pollVars, dpvVars, runVars>>

\* SamplingSystem.__init__ with cell_filled = True: the volume is set to 5 mL and the
\* cell is emptied
ConstructSampler ==
    /\ volPc = "idle"
    /\ \/ /\ cell_volume' = empty_cell(Sampler(Ml(5), << >>)).cell_volume
          /\ volPc' = "between"
          /\ lastCall' = "empty"
       \/ /\ cell_volume' = Ml(5)
          /\ volPc' = "raised"
          /\ lastCall' = "raised"
    /\ UNCHANGED <<washLeft, fill_volumes, cellCalls, volRest>>

\* _sample_in_cell up to the yield for the next queued sample: transfer_to_cell and
\* dilute_cell(volume = total - sample), each of which may raise at the pump
FillSample ==
    /\ volPc = "between"
    /\ Len(fill_volumes) < MaxSamples
    /\ fill_volumes' = Append(fill_volumes, cell_volume)
    /\ cellCalls' = 0
    /\ \E st \in FillSettings : \E k \in 0..2 :
          /\ cell_volume' = FillVolume(cell_volume, 1, st, k)
          /\ volPc' = IF k = 2 THEN "in_cell" ELSE "raised"
          /\ lastCall' = IF k = 2 THEN "dilute" ELSE "raised"
    /\ UNCHANGED <<washLeft, volRest>>

\* transfer_to_cell(source_port, volume)
TransferCall ==
    /\ volPc = "in_cell"
    /\ cellCalls < MaxCellCalls
    /\ cellCalls' = cellCalls + 1
    /\ \E volume \in Volumes :
          cell_volume' = transfer_to_cell(Sampler(cell_volume, << >>), 1, volume).cell_volume
    /\ lastCall' = "transfer"
    /\ UNCHANGED <<volPc, washLeft, fill_volumes, volRest>>

\* dilute_cell(volume, factor)
DiluteCall ==
    /\ volPc = "in_cell"
    /\ cellCalls < MaxCellCalls
    /\ cellCalls' = cellCalls + 1
    /\ \E volume \in Volumes : \E factor \in Factors :
          cell_volume' = dilute_cell(Sampler(cell_volume, << >>), volume, factor).cell_volume
    /\ lastCall' = "dilute"
    /\ UNCHANGED <<volPc, washLeft, fill_volumes, volRest>>

\* _empty_cell()
EmptyCall ==
    /\ volPc = "in_cell"
    /\ cellCalls < MaxCellCalls
    /\ cellCalls' = cellCalls + 1
    /\ cell_volume' = empty_cell(Sampler(cell_volume, << >>)).cell_volume
    /\ lastCall' = "empty"
    /\ UNCHANGED <<volPc, washLeft, fill_volumes, volRest>>

\* a pump call of one of these raises: the volume is not updated
CallRaises ==
    /\ volPc \in {"in_cell", "washing"}
    /\ volPc' = "raised"
    /\ lastCall' = "raised"
    /\ UNCHANGED <<cell_volume, washLeft, fill_volumes, cellCalls, volRest>>

\* wash_cell(wash_volume, cycles) is entered (the finally block of _sample_in_cell)
WashCellBegin ==
    /\ volPc = "in_cell"
    /\ \E st \in WashSettings : washLeft' = WashCellCalls(st.wash_volume, st.washing_cycles)
    /\ volPc' = "washing"
    /\ UNCHANGED <<cell_volume, lastCall, fill_volumes, cellCalls, volRest>>

\* the next call wash_cell makes on itself; after the last one wash_cell returns
WashCellCall ==
    /\ volPc = "washing"
    /\ washLeft # << >>
    /\ cell_volume' = ApplyCalls(Sampler(cell_volume, << >>), washLeft, 1).cell_volume
    /\ washLeft' = Tail(washLeft)
    /\ IF Len(washLeft) = 1
       THEN volPc' = "between" /\ lastCall' = "wash"
       ELSE volPc' = "washing" /\ lastCall' = Head(washLeft).call
    /\ UNCHANGED <<fill_volumes, cellCalls, volRest>>

NextVolume ==
    \/ ConstructSampler
    \/ FillSample
    \/ TransferCall
    \/ DiluteCall
    \/ EmptyCall
    \/ CallRaises
    \/ WashCellBegin
    \/ WashCellCall

SpecVolume == InitVolume /\ [][NextVolume]_vars

\* ------------------------------------------------------- peak analysis

Voltages == 1..MaxVoltage

\* what scipy.find_peaks reports of one peak, as voltages: left_ips <= peak <= right_ips
PickedPeaks ==
    { pk \in [onset : Voltages, peak : Voltages, offset : Voltages] :
         pk.onset <= pk.peak /\ pk.peak <= pk.offset }

\* the peaks of one iteration, in ascending order of the position of their maximum
PickedLists ==
    { l \in BoundedSeq(PickedPeaks, MaxPeaks) :
         \A i \in 1..(Len(l) - 1) : l[i].peak < l[i + 1].peak }

\* _get_peak_data: the dictionary appended for one peak (positions only)
NewPeak(pk) == [onset |-> pk.onset, offset |-> pk.offset, peak |-> pk.peak, overlap |-> FALSE]

\* _get_peak_data: `for peak1, peak2 in zip(peaks, peaks[1:])`, from pair i on; the
\* dictionaries are changed in place, so a later pair sees what an earlier one wrote
RECURSIVE ComparePairs(_, _)
ComparePairs(ps, i) ==
    IF i >= Len(ps) THEN ps
    ELSE LET peak1 == ps[i]
             peak2 == ps[i + 1]
         IN IF peak1.offset > peak2.onset
            THEN ComparePairs([ps EXCEPT ![i].overlap = TRUE,
                                         ![i + 1].overlap = TRUE,
                                         ![i + 1].offset = peak1.offset,
                                         ![i].offset = peak2.onset], i + 1)
            ELSE ComparePairs(ps, i + 1)

\* _get_peak_data(data_of_iteration, peaks_picked, peak_properties, redox_process)
GetPeakData(peaks_picked) ==
    IF peaks_picked = << >> THEN << >>
    ELSE ComparePairs([i \in DOMAIN peaks_picked |-> NewPeak(peaks_picked[i])], 1)

\* _pick_peaks has the picked peaks of an iteration and is about to call _get_peak_data
InitPeaks ==
    /\ EngineInit
    /\ VolumeIdle
    /\ RunsIdle
    /\ DpvIdle
    /\ PollIdle
    /\ AnalysisIdle
    /\ CyclesIdle
    /\ cell_volume = 0
    /\ StepIdle
    /\ CellIdle
    /\ CvIdle
    /\ picked \in PickedLists
    /\ peaks = << >>
    /\ peaksPc = "ready"

\* the call of _get_peak_data
PeakData ==
    /\ peaksPc = "ready"
    /\ peaks' = GetPeakData(picked)
    /\ peaksPc' = "done"
    /\ UNCHANGED <<picked, engineVars, cell_volume, stepVars, cellVars, cvVars, cycleVars,
                   analysisVars, pollVars, dpvVars, runVars, volVars>>

NextPeaks == PeakData

SpecPeaks == InitPeaks /\ [][NextPeaks]_vars

\* the peak lists "Peak Picking" can have stored for an iteration
PeakLists == { GetPeakData(l) : l \in PickedLists }

\* a filter {"key": k, "operation": "x > v"} is written [key |-> k, above |-> v]
CvFilters ==
    { << >> } \cup { << [key |-> "peak", above |-> v] >> : v \in Voltages }

\* a selection {"key": k, "operation": "max(x)"} or "min(x)"
CvSelections == [key : {"peak"}, operation : {"max(x)", "min(x)"}]

\* the analysis settings of a "CV Parameters" step: the allowed range is the whole grid
CvConfigs ==
    [filters : CvFilters, selection : CvSelections, min_voltage : {1},
     max_voltage : {MaxVoltage}, additional_voltage : {0, 1}]

\* filter_peaks(peak_list, filters)
RECURSIVE filter_peaks(_, _)
filter_peaks(peak_list, filters) ==
    IF filters = << >> THEN peak_list
    ELSE filter_peaks(SelectSeq(peak_list, LAMBDA pk : pk[Head(filters).key] > Head(filters).above),
                      Tail(filters))

Max(a, b) == IF a >= b THEN a ELSE b
Min(a, b) == IF a <= b THEN a ELSE b

\* select_peaks(peak_list, operation): max() and min() of an empty list raise
\* ValueError; list.index gives the first position of the value
select_peaks(peak_list, operation) ==
    IF peak_list = << >>
    THEN [exc |-> "ValueError", idx |-> 0]
    ELSE LET peak_properties == [i \in DOMAIN peak_list |-> peak_list[i][operation.key]]
             wanted == IF operation.operation = "max(x)"
                       THEN CHOOSE v \in { peak_properties[i] : i \in DOMAIN peak_list } :
                               \A i \in DOMAIN peak_list : peak_properties[i] <= v
                       ELSE CHOOSE v \in { peak_properties[i] : i \in DOMAIN peak_list } :
                               \A i \in DOMAIN peak_list : peak_properties[i] >= v
             peak_idx == CHOOSE i \in DOMAIN peak_list :
                            /\ peak_properties[i] = wanted
                            /\ \A k \in 1..(i - 1) : peak_properties[k] # wanted
         IN [exc |-> "none", idx |-> peak_idx]

\* _get_cv_parameters: the loop over all picked peaks of the iteration, from peak i
\* on; w is (min_peak_onset, max_peak_offset) so far
RECURSIVE NeighbourBounds(_, _, _, _)
NeighbourBounds(peak_list, i, selected_peak, w) ==
    IF i > Len(peak_list) THEN w
    ELSE LET pk == peak_list[i] IN
         NeighbourBounds(peak_list, i + 1, selected_peak,
                         IF pk.peak < selected_peak.peak
                         THEN [w EXCEPT !.min_peak_onset = pk.offset]
                         ELSE IF pk.peak > selected_peak.peak
                         THEN [w EXCEPT !.max_peak_offset = pk.onset]
                         ELSE w)

ZeroRow == << 0, 0, 0, 0, 0 >>

\* _get_cv_parameters: the body of the loop for one iteration whose picked peaks are
\* peak_list; row is what cv_parameters[no_iteration] holds afterwards
CvIteration(peak_list, cfg, old_row) ==
    LET filtered_peaks == filter_peaks(peak_list, cfg.filters)
        sel == select_peaks(filtered_peaks, cfg.selection)
    IN IF sel.exc # "none"
       THEN [exc |-> sel.exc, row |-> old_row]
       ELSE LET selected_peak == filtered_peaks[sel.idx]
                w == NeighbourBounds(peak_list, 1, selected_peak,
                                     [min_peak_onset |-> cfg.min_voltage,
                                      max_peak_offset |-> cfg.max_voltage])
                min_peak_onset == Max(w.min_peak_onset,
                                      selected_peak.onset - cfg.additional_voltage)
                max_peak_offset == Min(w.max_peak_offset,
                                       selected_peak.offset + cfg.additional_voltage)
            IN [exc |-> "none",
                row |-> << max_peak_offset, max_peak_offset, min_peak_onset,
                           max_peak_offset, max_peak_offset >>]

\* _get_cv_parameters is entered: cv_parameters = np.zeros((len(self._raw_data), 5))
InitCv ==
    /\ EngineInit
    /\ VolumeIdle
    /\ RunsIdle
    /\ DpvIdle
    /\ PollIdle
    /\ AnalysisIdle
    /\ CyclesIdle
    /\ cell_volume = 0
    /\ StepIdle
    /\ CellIdle
    /\ PeaksIdle
    /\ cvConfig \in CvConfigs
    /\ no_iteration = 0
    /\ cv_parameters = [i \in 1..MaxIterations |-> ZeroRow]
    /\ cvTried = << >>
    /\ cvPc = "loop"

\* one iteration of the loop of _get_cv_parameters; the peak list stored for the
\* iteration is read here
GetCvIteration ==
    /\ cvPc = "loop"
    /\ no_iteration < Len(cv_parameters)
    /\ \E peak_list \in PeakLists :
          LET r == CvIteration(peak_list, cvConfig, cv_parameters[no_iteration + 1]) IN
          /\ cv_parameters' = [cv_parameters EXCEPT ![no_iteration + 1] = r.row]
          /\ cvTried' = Append(cvTried, r.exc)
    /\ no_iteration' = no_iteration + 1
    /\ UNCHANGED <<cvConfig, cvPc, engineVars, cell_volume, stepVars, cellVars, peakVars, cycleVars,
                   analysisVars, pollVars, dpvVars, runVars, volVars>>

\* the loop is over: self._analysis_results["CV Parameters"] = cv_parameters
GetCvStore ==
    /\ cvPc = "loop"
    /\ no_iteration = Len(cv_parameters)
    /\ cvPc' = "done"
    /\ UNCHANGED <<cvConfig, no_iteration, cv_parameters, cvTried, engineVars, cell_volume,
                   stepVars, cellVars, peakVars, cycleVars, analysisVars, pollVars, dpvVars,
                   runVars, volVars>>

NextCv == GetCvIteration \/ GetCvStore

SpecCv == InitCv /\ [][NextCv]_vars

\* ------------------------------------------- construction of a CVAnalyzer

RowsPerCycle == 2

\* the rows the potentiostat delivered for iteration `iteration` of n cycles: of a row
\* the time index, the cycle (column 3) and the iteration (last column) are kept
IterationRows(iteration, n) ==
    [j \in 1..(RowsPerCycle * n) |->
        [t |-> j, cycle |-> (j - 1) \div RowsPerCycle, iteration |-> iteration]]

\* the data of a measurement whose iteration i has ns[i] cycles
RECURSIVE Dataset(_, _)
Dataset(ns, i) ==
    IF i > Len(ns) THEN << >> ELSE IterationRows(i - 1, ns[i]) \o Dataset(ns, i + 1)

CycleCounts == UNION { [1..k -> 1..MaxCvCycles] : k \in 1..MaxIterations }

\* np.max of one column
RECURSIVE ColumnMax(_, _)
ColumnMax(rows, column) ==
    IF Len(rows) = 1 THEN Head(rows)[column]
    ELSE Max(Head(rows)[column], ColumnMax(Tail(rows), column))

\* data[data[:, column] == value]
WhereColumn(rows, column, value) == SelectSeq(rows, LAMBDA r : r[column] = value)

\* [f(x) for x in range(a, b)]
Range(a, b) == [k \in 1..(IF b > a THEN b - a ELSE 0) |-> a + k - 1]

\* EChemDataAnalyzer.__init__ has stored the raw data; CVAnalyzer.__init__ goes on
InitCycles ==
    /\ EngineInit
    /\ VolumeIdle
    /\ RunsIdle
    /\ DpvIdle
    /\ PollIdle
    /\ AnalysisIdle
    /\ cell_volume = 0
    /\ StepIdle
    /\ CellIdle
    /\ PeaksIdle
    /\ CvIdle
    /\ \E ns \in CycleCounts : dataset = Array(Dataset(ns, 1))
    /\ raw_data = dataset
    /\ cycle_iteration = 0
    /\ cyclePc = "init"

\* EChemDataAnalyzer._separate_iterations
SeparateIterations ==
    /\ cyclePc = "init"
    /\ LET no_iterations == ColumnMax(raw_data.val, "iteration") + 1
           iterations == Range(0, no_iterations)
       IN raw_data' = List([i \in DOMAIN iterations |->
                              Array(WhereColumn(raw_data.val, "iteration", iterations[i]))])
    /\ cyclePc' = "cycles"
    /\ UNCHANGED <<dataset, cycle_iteration, engineVars, cell_volume, stepVars, cellVars,
                   peakVars, cvVars, analysisVars, pollVars, dpvVars, runVars, volVars>>

\* CVAnalyzer._separate_cycles: one pass of `for no_iteration in range(len(self._raw_data))`
SeparateCyclesIteration ==
    /\ cyclePc = "cycles"
    /\ cycle_iteration < Len(raw_data.val)
    /\ LET iteration_data == raw_data.val[cycle_iteration + 1]
           skip_cycles == 2
           no_cycles == ColumnMax(iteration_data.val, "cycle") + 1
           cycles == Range(skip_cycles, no_cycles)
       IN raw_data' = [raw_data EXCEPT !.val[cycle_iteration + 1] =
                          List([c \in DOMAIN cycles |->
                                  Array(WhereColumn(iteration_data.val, "cycle", cycles[c]))])]
    /\ cycle_iteration' = cycle_iteration + 1
    /\ UNCHANGED <<dataset, cyclePc, engineVars, cell_volume, stepVars, cellVars, peakVars,
                   cvVars, analysisVars, pollVars, dpvVars, runVars, volVars>>

\* CVAnalyzer._separate_cycles: the statements after the loop; a list cannot be
\* indexed with [:, 3] (TypeError), an array can
SeparateCyclesTail ==
    /\ cyclePc = "cycles"
    /\ cycle_iteration = Len(raw_data.val)
    /\ IF raw_data.kind = "list"
       THEN /\ cyclePc' = "raised"
            /\ UNCHANGED raw_data
       ELSE LET skip_cycles == 2
                no_cycles == ColumnMax(raw_data.val, "cycle")
                cycles == Range(skip_cycles, no_cycles)
            IN /\ raw_data' = List([c \in DOMAIN cycles |->
                                      Array(WhereColumn(raw_data.val, "cycle", cycles[c]))])
               /\ cyclePc' = "done"
    /\ UNCHANGED <<dataset, cycle_iteration, engineVars, cell_volume, stepVars, cellVars,
                   peakVars, cvVars, analysisVars, pollVars, dpvVars, runVars, volVars>>

NextCycles == SeparateIterations \/ SeparateCyclesIteration \/ SeparateCyclesTail

SpecCycles == InitCycles /\ [][NextCycles]_vars

\* ----------------------------------------- polling of one measurement

Techniques == {"DPV", "CV"}

\* what one BL_GetData call can deliver after `status`: a running device goes on or
\* stops, a stopped one stays stopped; rows are delivered while some are left
Polls(status, rows_so_far) ==
    { d \in [rows : 0..1, status : {"RUN", "STOP"}] :
        /\ status = "STOP" => d.status = "STOP"
        /\ rows_so_far + d.rows <= MaxRows }

\* EChemController._merge_data, on the numbers of rows
merge_data(old_size, new_size) ==
    IF old_size = 0 THEN [exc |-> "none", size |-> new_size]
    ELSE IF new_size = 0 THEN [exc |-> "StopIteration", size |-> old_size]
    ELSE [exc |-> "none", size |-> old_size + new_size]

\* technique.process_data(results) for `size` rows: DPV indexes the columns of the
\* array, which np.array([]) does not have; the other techniques return the array
process_data_of(tech, size) ==
    IF tech = "DPV" /\ size = 0 THEN [exc |-> "IndexError", rows |-> 0]
    ELSE IF tech = "DPV" THEN [exc |-> "none", rows |-> size \div 2]
    ELSE [exc |-> "none", rows |-> size]

\* do_measurement has loaded the technique and calls _run_single_measurement
InitPoll ==
    /\ EngineInit
    /\ VolumeIdle
    /\ RunsIdle
    /\ DpvIdle
    /\ CyclesIdle
    /\ AnalysisIdle
    /\ cell_volume = 0
    /\ StepIdle
    /\ CellIdle
    /\ PeaksIdle
    /\ CvIdle
    /\ technique \in Techniques
    /\ acquired = 0
    /\ metadata = NoPoll
    /\ channel = "idle"
    /\ stops = 0
    /\ interrupted = FALSE
    /\ pollExc = "none"
    /\ pollPc = "open"

NotPollVars == <<engineVars, cell_volume, stepVars, cellVars, peakVars, cvVars, cycleVars,
                 analysisVars, dpvVars,
                 runVars,
                 volVars>>

\* _open_channel: _start_channel, which may fail in the DLL
OpenChannel ==
    /\ pollPc = "open"
    /\ \E ok \in BOOLEAN :
          /\ channel' = IF ok THEN "started" ELSE channel
          /\ pollPc' = IF ok THEN "try" ELSE "raised"
          /\ pollExc' = IF ok THEN "none" ELSE "DLLError"
    /\ UNCHANGED <<technique, acquired, metadata, stops, interrupted, NotPollVars>>

\* the try block of the loop: _get_data, extract_data, _merge_data and the plot
PollData ==
    /\ pollPc = "try"
    /\ \E d \in Polls(metadata.status, acquired) :
          LET merged == merge_data(acquired, d.rows) IN
          /\ metadata' = d
          /\ acquired' = merged.size
          /\ pollPc' = IF merged.exc = "StopIteration" THEN "handler" ELSE "try"
    /\ UNCHANGED <<technique, channel, stops, interrupted, pollExc, NotPollVars>>

\* BL_GetData fails: the error leaves the with block, whose finally stops the channel
PollError ==
    /\ pollPc = "try"
    /\ stops' = stops + 1
    /\ channel' = "stopped"
    /\ pollExc' = "DLLError"
    /\ pollPc' = "raised"
    /\ UNCHANGED <<technique, acquired, metadata, interrupted, NotPollVars>>

\* except StopIteration: break if the status is STOP, else continue
StopIterationHandler ==
    /\ pollPc = "handler"
    /\ pollPc' = IF metadata.status = "STOP" THEN "exit" ELSE "try"
    /\ UNCHANGED <<technique, acquired, metadata, channel, stops, interrupted, pollExc,
                   NotPollVars>>

\* a KeyboardInterrupt arrives inside the try block: except KeyboardInterrupt logs
\* and breaks
InterruptInTry ==
    /\ pollPc = "try"
    /\ ~interrupted
    /\ interrupted' = TRUE
    /\ pollPc' = "exit"
    /\ UNCHANGED <<technique, acquired, metadata, channel, stops, pollExc, NotPollVars>>

\* a KeyboardInterrupt arrives while the handler of StopIteration runs: no except
\* clause of the try statement applies, the interrupt leaves the with block (whose
\* finally stops the channel) and the method
InterruptInHandler ==
    /\ pollPc = "handler"
    /\ ~interrupted
    /\ interrupted' = TRUE
    /\ stops' = stops + 1
    /\ channel' = "stopped"
    /\ pollExc' = "KeyboardInterrupt"
    /\ pollPc' = "raised"
    /\ UNCHANGED <<technique, acquired, metadata, NotPollVars>>

\* the loop was left with break: the with block ends (stop_channel), then
\* return self.technique.process_data(results)
CloseAndReturn ==
    /\ pollPc = "exit"
    /\ stops' = stops + 1
    /\ channel' = "stopped"
    /\ LET processed == process_data_of(technique, acquired) IN
       /\ pollExc' = processed.exc
       /\ pollPc' = IF processed.exc = "none" THEN "returned" ELSE "raised"
    /\ UNCHANGED <<technique, acquired, metadata, interrupted, NotPollVars>>

NextPoll ==
    \/ OpenChannel
    \/ PollData
    \/ PollError
    \/ StopIterationHandler
    \/ InterruptInTry
    \/ InterruptInHandler
    \/ CloseAndReturn

SpecPoll == InitPoll /\ [][NextPoll]_vars

\* ------------------------------------- differential-pulse processing

\* a two-dimensional array of n >= 1 rows; the time of a row is its position, the
\* voltage rises with it
PulseData ==
    UNION { { [j \in 1..n |-> [time |-> j, voltage |-> n + j, current |-> c[j]]] :
                c \in [1..n -> 0..MaxCurrent] } : n \in 1..MaxPulseRows }

\* data[:, column]
Column(data, column) == [j \in DOMAIN data |-> data[j][column]]
\* a[0::2] and a[1::2]
EvenSlice(a) == [i \in 1..((Len(a) + 1) \div 2) |-> a[2 * i - 1]]
OddSlice(a) == [i \in 1..(Len(a) \div 2) |-> a[2 * i]]
\* a[:k]
Take(a, k) == SubSeq(a, 1, Min(k, Len(a)))

\* a variant of DPV.process_data without the truncation of pulse_high: the arrays of
\* an odd data set do not fit together
process_data_untruncated(data) ==
    LET pulse_high == EvenSlice(Column(data, "current"))
        pulse_low == OddSlice(Column(data, "current"))
    IN IF Len(pulse_high) # Len(pulse_low)
       THEN [exc |-> "ValueError", rows |-> << >>]
       ELSE [exc |-> "none",
             rows |-> [i \in 1..Len(pulse_low) |->
                         [time |-> EvenSlice(Column(data, "time"))[i],
                          voltage |-> EvenSlice(Column(data, "voltage"))[i],
                          current |-> pulse_high[i] - pulse_low[i]]]]

\* DPV.process_data(extracted_data)
process_data(data) ==
    LET high == EvenSlice(Column(data, "current"))
        pulse_low == OddSlice(Column(data, "current"))
        no_data_points == Len(pulse_low)
        pulse_high == IF Len(high) # no_data_points THEN Take(high, no_data_points) ELSE high
        differential_current == [i \in 1..no_data_points |-> pulse_high[i] - pulse_low[i]]
        times == Take(EvenSlice(Column(data, "time")), no_data_points)
        voltages == Take(EvenSlice(Column(data, "voltage")), no_data_points)
    IN [exc |-> "none",
        rows |-> [i \in 1..no_data_points |->
                    [time |-> times[i], voltage |-> voltages[i],
                     current |-> differential_current[i]]]]

\* _run_single_measurement has the rows of a measurement and calls process_data
InitDpv ==
    /\ EngineInit
    /\ VolumeIdle
    /\ RunsIdle
    /\ PollIdle
    /\ CyclesIdle
    /\ AnalysisIdle
    /\ cell_volume = 0
    /\ StepIdle
    /\ CellIdle
    /\ PeaksIdle
    /\ CvIdle
    /\ extracted_data \in PulseData
    /\ processed_data = NoData
    /\ dpvPc = "ready"

\* the call of process_data
ProcessData ==
    /\ dpvPc = "ready"
    /\ processed_data' = process_data(extracted_data)
    /\ dpvPc' = "done"
    /\ UNCHANGED <<extracted_data, engineVars, cell_volume, stepVars, cellVars, peakVars,
                   cvVars, cycleVars, analysisVars, pollVars, runVars, volVars>>

NextDpv == ProcessData

SpecDpv == InitDpv /\ [][NextDpv]_vars

\* ------------------------------- analysis steps of a pulsed technique

\* PulseTechniqueAnalyzer._set_methods: the keys of self._analysis_methods
PulseMethods == {"Peak Picking", "CV Parameters", "Plot", "Integration"}

\* the keys of PulsedTechniques_Defaults.json: one entry per analysis step
PulseDefaults == PulseMethods

\* step names a caller may write: those of the technique and one it does not have
AnalysisNames == PulseMethods \cup {"Peaks Scanrate"}

\* an analysis configuration: a dictionary, so no name occurs twice
AnalysisSettings ==
    { c \in BoundedSeq(AnalysisNames, MaxAnalysisSteps) :
        \A i, j \in DOMAIN c : c[i] = c[j] => i = j }

\* a variant of _get_config that takes over every step, with or without defaults
get_config_unchecked(analysis) == [exc |-> "none", steps |-> analysis]

\* EChemDataAnalyzer._get_config: default_config[step] raises KeyError for a step
\* the defaults do not have
get_config(analysis) ==
    IF \E i \in DOMAIN analysis : analysis[i] \notin PulseDefaults
    THEN [exc |-> "KeyError", steps |-> << >>]
    ELSE [exc |-> "none", steps |-> analysis]

\* DataAnalyzer.analyze_data is about to construct the analyzer
InitAnalysis ==
    /\ EngineInit
    /\ VolumeIdle
    /\ RunsIdle
    /\ DpvIdle
    /\ PollIdle
    /\ CyclesIdle
    /\ cell_volume = 0
    /\ StepIdle
    /\ CellIdle
    /\ PeaksIdle
    /\ CvIdle
    /\ analysis_settings \in AnalysisSettings
    /\ analysis_steps = << >>
    /\ executed = << >>
    /\ analysisExc = "none"
    /\ analysisPc = "new"

\* EChemDataAnalyzer.__init__ (and _separate_iterations)
AnalyzerConstruct ==
    /\ analysisPc = "new"
    /\ LET config == get_config(analysis_settings) IN
       /\ analysis_steps' = config.steps
       /\ analysisExc' = config.exc
       /\ analysisPc' = IF config.exc = "none" THEN "ready" ELSE "raised"
    /\ UNCHANGED <<analysis_settings, executed, engineVars, cell_volume, stepVars, cellVars,
                   peakVars, cvVars, cycleVars, pollVars, dpvVars, runVars, volVars>>

\* run_analysis: one pass of the loop. The lookup in self._analysis_methods raises
\* KeyError for a step that has no operation; an operation returns or raises, and
\* "CV Parameters" raises KeyError when no "Peak Picking" result is stored
RunAnalysisStep ==
    /\ analysisPc = "ready"
    /\ Len(executed) < Len(analysis_steps)
    /\ LET step == analysis_steps[Len(executed) + 1] IN
       IF step \notin PulseMethods
       THEN /\ analysisExc' = "KeyError"
            /\ analysisPc' = "raised"
            /\ UNCHANGED executed
       ELSE /\ executed' = Append(executed, step)
            /\ \E e \in {"none", "KeyError", "Exception"} :
                  /\ (step = "CV Parameters" /\ \A i \in DOMAIN executed : executed[i] # "Peak Picking")
                        => e = "KeyError"
                  /\ analysisExc' = e
                  /\ analysisPc' = IF e = "none" THEN "ready" ELSE "raised"
    /\ UNCHANGED <<analysis_settings, analysis_steps, engineVars, cell_volume, stepVars,
                   cellVars, peakVars, cvVars, cycleVars, pollVars, dpvVars, runVars, volVars>>

\* run_analysis: return self._analysis_results, self._figures
RunAnalysisReturn ==
    /\ analysisPc = "ready"
    /\ Len(executed) = Len(analysis_steps)
    /\ analysisPc' = "returned"
    /\ UNCHANGED <<analysis_settings, analysis_steps, executed, analysisExc, engineVars,
                   cell_volume, stepVars, cellVars, peakVars, cvVars, cycleVars, pollVars,
                   dpvVars, runVars, volVars>>

NextAnalysis == AnalyzerConstruct \/ RunAnalysisStep \/ RunAnalysisReturn

SpecAnalysis == InitAnalysis /\ [][NextAnalysis]_vars

\* ------------------------- "Peak Picking" followed by "CV Parameters"

\* analysis settings whose allowed range is the whole grid or ends one grid point
\* inside it
CvRangeConfigs ==
    [filters : CvFilters, selection : CvSelections, min_voltage : {1, 2},
     max_voltage : {MaxVoltage - 1, MaxVoltage}, additional_voltage : {0, 1}]

\* a measurement of one iteration is analysed: _pick_peaks is about to call
\* _get_peak_data, the "CV Parameters" step follows with the settings cvConfig
InitWindow ==
    /\ EngineInit
    /\ VolumeIdle
    /\ RunsIdle
    /\ DpvIdle
    /\ PollIdle
    /\ AnalysisIdle
    /\ CyclesIdle
    /\ cell_volume = 0
    /\ StepIdle
    /\ CellIdle
    /\ picked \in PickedLists
    /\ peaks = << >>
    /\ peaksPc = "ready"
    /\ cvConfig \in CvRangeConfigs
    /\ no_iteration = 0
    /\ cv_parameters = << ZeroRow >>
    /\ cvTried = << >>
    /\ cvPc = "idle"

\* _get_cv_parameters on the stored "Peak Picking" result of the iteration: the loop
\* body runs once and the array is stored
GetCvParameters ==
    /\ peaksPc = "done"
    /\ cvPc = "idle"
    /\ LET r == CvIteration(peaks, cvConfig, cv_parameters[1]) IN
       /\ cv_parameters' = [cv_parameters EXCEPT ![1] = r.row]
       /\ cvTried' = << r.exc >>
    /\ no_iteration' = 1
    /\ cvPc' = "done"
    /\ UNCHANGED <<cvConfig, engineVars, cell_volume, stepVars, cellVars, peakVars, cycleVars,
                   analysisVars, pollVars, dpvVars, runVars, volVars>>

NextWindow == PeakData \/ GetCvParameters

SpecWindow == InitWindow /\ [][NextWindow]_vars

\* ------------------------------------------------------ reading the history

PhaseEvents(ph) == SelectSeq(trace, LAMBDA e : e.phase = ph)
Positions(op) == { i \in DOMAIN trace : trace[i].op = op }
Positions2(op, j) == { i \in DOMAIN trace : trace[i].op = op /\ trace[i].arg = j }
AllOk(seq) == \A i \in DOMAIN seq : seq[i].ok

\* the fill of the current sample went through (the purge returned)
FillCompleted == \E i \in Positions("purge_cell") : trace[i].ok
\* the control thread is outside _measure_sample
SampleScopeLeft == ctrlPc \in {"loop", "shutdown", "return", "finished", "failed"}

DispatchPositions(j) ==
    { i \in DOMAIN trace : trace[i].phase = "steps" /\ trace[i].op \in {"measure", "dilute"}
                           /\ trace[i].arg = j }
Dispatched(j) == DispatchPositions(j) # {}
Measured(j) == Positions2("do_measurement", j) # {}
MeasuredOk(j) == \E i \in Positions2("do_measurement", j) : trace[i].ok
Skipped(j) == Positions2("SkipExecution", j) # {}
Stopped(j) == Positions2("StopExecution", j) # {}
ErrorNames == {"KeyError", "TypeError", "HardwareError"}
StepErrorPositions ==
    { i \in DOMAIN trace : trace[i].phase = "steps" /\ trace[i].op \in ErrorNames }
StepRange == 1..(MaxSteps + 1)

\* the teardown the workflow asks for
ExpectedTeardown ==
    (IF workflow.discard THEN << "wash_autosampler_position" >> ELSE << >>) \o << "wash_cell" >>

\* the teardown calls made so far are the expected ones, in order, none twice, and
\* none is left out unless the one before it raised
TeardownRanOnce ==
    LET td == PhaseEvents("empty") IN
    /\ td # << >>
    /\ Len(td) <= Len(ExpectedTeardown)
    /\ \A i \in DOMAIN td : td[i].op = ExpectedTeardown[i]
    /\ AllOk(td) => Len(td) = Len(ExpectedTeardown)
    /\ \A i \in DOMAIN td : td[i].op = "wash_autosampler_position"
                              => td[i].arg = samples[sampleIdx].sample_location

\* ------------------------------------------------------------------ claims

\* C1: for every sample whose cell fill completed, the cell-emptying sequence
\* (wash_autosampler_position when the discard flag is set, then wash_cell) has run
\* exactly once when the control thread is outside _measure_sample, however the step
\* loop ended (all steps done, STOP, or an exception of a step, which is then still in
\* the thread or has left it only after the teardown); nothing of the step loop runs
\* after the teardown began.
C1_TeardownExactlyOnce ==
    (SampleScopeLeft /\ FillCompleted) =>
        /\ TeardownRanOnce
        /\ \A i, k \in DOMAIN trace :
              (trace[i].phase = "empty" /\ k > i) => trace[k].phase \in {"empty", "shutdown"}

C1_Witness ==
    /\ ctrlPc = "failed"
    /\ uncaught = "HardwareError"
    /\ workflow.discard
    /\ \E i \in Positions("do_measurement") : ~trace[i].ok
    /\ LET td == PhaseEvents("empty") IN
       /\ Len(td) = 2
       /\ AllOk(td)
       /\ td[1].op = "wash_autosampler_position"
       /\ td[2].op = "wash_cell"

\* C2: when a cross-step parameter of a step resolves to "SKIP", no measurement is run
\* for that step and the result has no entry for it, the next declared step is
\* dispatched after the skip, every step whose measurement completed has its entry
\* (s1 and s3 in a three-step workflow that skips s2), and the teardown is performed
\* before _measure_sample is left.
C2_SkipSemantics ==
    \A j \in StepRange :
        Skipped(j) =>
            /\ ~Measured(j)
            /\ StepNames[j] \notin DOMAIN result
            /\ (ctrlPc # "steps" /\ j < workflow.nSteps) =>
                  \E a \in Positions2("SkipExecution", j) :
                     \E b \in DispatchPositions(j + 1) : a < b
            /\ \A i \in StepRange : MeasuredOk(i) => StepNames[i] \in DOMAIN result
            /\ SampleScopeLeft => PhaseEvents("empty") # << >>

C2_Witness ==
    /\ ctrlPc = "loop"
    /\ workflow.nSteps = 3
    /\ \A j \in 1..3 : \E i \in DispatchPositions(j) : trace[i].op = "measure"
    /\ Skipped(2)
    /\ MeasuredOk(1) /\ MeasuredOk(3)
    /\ DOMAIN result = {"s1", "s3"}
    /\ \E i \in Positions("wash_cell") : trace[i].ok

\* C3: when a cross-step parameter of a step resolves to "STOP", neither that step nor
\* a later one runs a measurement or is dispatched, the result holds exactly the
\* entries of the earlier steps whose measurement completed (only s1 when s2 stops),
\* the cell emptying is run exactly once, and, the teardown calls having returned, the
\* result is stored and the engine is back at the sample loop, where the next queued
\* sample can begin.
C3_StopSemantics ==
    \A j \in StepRange :
        Stopped(j) =>
            /\ \A i \in StepRange : i >= j => (~Measured(i) /\ StepNames[i] \notin DOMAIN result)
            /\ \A i \in StepRange : i > j => ~Dispatched(i)
            /\ DOMAIN result = { StepNames[i] : i \in { x \in 1..(j - 1) : MeasuredOk(x) } }
            /\ ctrlPc # "steps"
            /\ SampleScopeLeft =>
                  /\ TeardownRanOnce
                  /\ Cardinality(Positions("wash_cell")) <= 1
                  /\ (AllOk(PhaseEvents("empty")) /\ AllOk(PhaseEvents("shutdown"))) =>
                        /\ ctrlPc # "failed"
                        /\ samples[sampleIdx].sample_name \in DOMAIN results
                        /\ results[samples[sampleIdx].sample_name] = sampleIdx
                        /\ (ctrlPc = "loop" /\ sampleIdx < Len(samples))
                              => ENABLED MeasureSampleBegin

C3_Witness ==
    /\ ctrlPc = "loop"
    /\ sampleIdx < Len(samples)
    /\ workflow.nSteps = 3
    /\ Stopped(2)
    /\ DOMAIN result = {"s1"}
    /\ Cardinality(Positions("wash_cell")) = 1
    /\ AllOk(PhaseEvents("empty"))

\* C4: whenever the control thread has ended, by finishing or by failing, the
\* presentation loop has been told to terminate (so that start_system returns).
C4_TerminateWhenThreadEnds ==
    ThreadEnded(ctrlPc) => terminate

\* C5: an exception of a step other than SkipExecution / StopExecution is not caught by
\* the step loop: after it only teardown calls are made (no later step, no later
\* sample), the control thread is in the teardown or has failed, it fails only after
\* the teardown was entered, the exception that leaves _run_system is the step's
\* exception (or the one a teardown call raised in its place), and the sample's result
\* is neither stored nor returned.
C5_StepErrorPropagates ==
    \A p \in StepErrorPositions :
        /\ ~trace[p].ok
        /\ ctrlPc \in {"empty", "failed"}
        /\ stepIdx = trace[p].arg
        /\ \A k \in DOMAIN trace : k > p => trace[k].phase = "empty"
        /\ thread_return.isNone
        /\ \A n \in DOMAIN results : results[n] # sampleIdx
        /\ ctrlPc = "failed" =>
              /\ PhaseEvents("empty") # << >>
              /\ uncaught = IF AllOk(PhaseEvents("empty")) THEN trace[p].op ELSE "HardwareError"

C5_Witness ==
    /\ ctrlPc = "failed"
    /\ uncaught = "KeyError"
    /\ sampleIdx < Len(samples)
    /\ stepIdx < workflow.nSteps
    /\ \E i \in Positions("wash_cell") : trace[i].ok

\* C6: SkipExecution and StopExecution never leave the engine: each one raised is
\* caught by the step loop, none is in flight outside the step loop and none leaves
\* _run_system.
C6_SignalsNeverEscape ==
    /\ uncaught \notin {"SkipExecution", "StopExecution"}
    /\ exc \notin {"SkipExecution", "StopExecution"}
    /\ \A i \in DOMAIN trace :
          trace[i].op \in {"SkipExecution", "StopExecution"} =>
              (trace[i].ok /\ trace[i].phase = "steps")

C6_Witness ==
    /\ ctrlPc = "finished"
    /\ uncaught = "none"
    /\ Positions("StopExecution") # {}
    /\ \E i \in Positions("wash_cell") : trace[i].ok

\* C7: start_system on an empty queue raises before anything is started: no control
\* thread, no potentiostat or sampling system acquired, the GUI loop not entered.
C7_EmptyQueueRejected ==
    (mainPc # "idle" /\ samples = << >>) =>
        /\ mainPc = "raised"
        /\ ctrlPc = "none"
        /\ potentiostat = "none"
        /\ sampling_system = "none"
        /\ gui = "closed"
        /\ ~terminate
        /\ trace = << >>

C7_Witness ==
    /\ mainPc = "raised"
    /\ samples = << >>

PhaseRank(ph) ==
    CASE ph = "fill" -> 1 [] ph = "steps" -> 2 [] ph = "empty" -> 3 [] ph = "shutdown" -> 4

ExpectedFill == << "transfer_to_cell", "dilute_cell", "purge_cell" >>

SampleOrderState ==
    /\ \A i \in DOMAIN trace :
          trace[i].op = "transfer_to_cell" => trace[i].arg = samples[sampleIdx].sample_location
    /\ \A n \in DOMAIN results :
          /\ results[n] \in 1..sampleIdx
          /\ samples[results[n]].sample_name = n
    /\ LET d == SelectSeq(trace, LAMBDA e : e.phase = "steps" /\ e.op \in {"measure", "dilute"})
       IN \A i \in DOMAIN d : d[i].arg = i
    /\ \A i, k \in DOMAIN trace : i < k => PhaseRank(trace[i].phase) <= PhaseRank(trace[k].phase)
    /\ LET f == PhaseEvents("fill") IN
       /\ Len(f) <= Len(ExpectedFill)
       /\ \A i \in DOMAIN f : f[i].op = ExpectedFill[i]
    /\ PhaseEvents("steps") # << >> => FillCompleted

SampleOrderStep ==
    sampleIdx' # sampleIdx =>
        /\ sampleIdx' = sampleIdx + 1
        /\ ctrlPc = "loop"
        /\ trace' = << >>
        /\ sampleIdx >= 1 =>
              /\ trace # << >>
              /\ trace[Len(trace)].op = "wash_cell"
              /\ trace[Len(trace)].ok

\* C8: samples are processed in submission order (the sample being filled is the one at
\* the loop position, results are stored under the names of the samples already
\* processed), steps are dispatched in declared order, the calls of one sample go
\* fill, steps, empty in this order with no step before the purge returned, and the
\* next sample is taken only when the wash_cell of the previous one has returned.
C8_SubmissionOrder ==
    [](SampleOrderState) /\ [][SampleOrderStep]_vars

C8_Witness ==
    /\ sampleIdx = 2
    /\ samples[1] # samples[2]
    /\ ctrlPc = "steps"
    /\ stepIdx = 3

\* C9: start_system returns only after the presentation loop has exited and the
\* control thread has ended, and after a run without failure the returned mapping
\* holds, under the name of every queued sample, the result of that sample.
C9_ReturnHoldsEveryResult ==
    mainPc = "returned" =>
        /\ gui = "destroyed"
        /\ ThreadEnded(ctrlPc)
        /\ uncaught = "none" =>
              /\ ~retval.isNone
              /\ \A i \in 1..Len(samples) :
                    /\ samples[i].sample_name \in DOMAIN retval.val
                    /\ retval.val[samples[i].sample_name] = i

ExpectedShutdown ==
    << "dilute_cell", "potentiostat_disconnect", "sampling_disconnect", "stop_gui" >>

\* C10: shutdown calls are made only after the wash_cell of the last queued sample has
\* returned; they are one protective fill, then the release of the potentiostat, then
\* the release of the sampling system, then stop_gui, each at most once and each only
\* after the one before it returned; nothing follows them, and the presentation loop
\* is told to stop only when both releases have returned.
C10_ShutdownOrder ==
    LET sd == PhaseEvents("shutdown") IN
    /\ sd # << >> =>
          /\ sampleIdx = Len(samples)
          /\ Len(sd) <= Len(ExpectedShutdown)
          /\ \A i \in DOMAIN sd : sd[i].op = ExpectedShutdown[i]
          /\ \A i \in DOMAIN sd : i < Len(sd) => sd[i].ok
          /\ LET first == Len(trace) - Len(sd) + 1 IN
             /\ first > 1
             /\ \A i \in DOMAIN trace : i >= first <=> trace[i].phase = "shutdown"
             /\ trace[first - 1].op = "wash_cell"
             /\ trace[first - 1].ok
    /\ (potentiostat = "disconnected") <=>
          (\E i \in DOMAIN sd : sd[i].op = "potentiostat_disconnect" /\ sd[i].ok)
    /\ (sampling_system = "disconnected") <=>
          (\E i \in DOMAIN sd : sd[i].op = "sampling_disconnect" /\ sd[i].ok)
    /\ terminate <=> (\E i \in DOMAIN sd : sd[i].op = "stop_gui")
    /\ terminate => (potentiostat = "disconnected" /\ sampling_system = "disconnected")
    /\ ctrlPc \in {"return", "finished"} => (terminate /\ Len(sd) = Len(ExpectedShutdown))

C10_Witness ==
    /\ ctrlPc = "finished"
    /\ terminate
    /\ Len(samples) = 2
    /\ AllOk(PhaseEvents("shutdown"))
    /\ Len(PhaseEvents("shutdown")) = 4

\* ---- cross-step parameters (SpecStep)

KeywordValue(v) == v.type = "str" /\ v.val \in {"SKIP", "STOP"}
Resolvable(e) == e.from \in DOMAIN stepPrev /\ e.key \in DOMAIN stepPrev[e.from]
ResolvedValue(e) == stepPrev[e.from][e.key]
\* the update entries that are reached and resolve to a value
ReachedEntries ==
    LET u == stepDecl.update_parameters IN
    { i \in DOMAIN u :
         /\ Resolvable(u[i])
         /\ \A k \in 1..(i - 1) : Resolvable(u[k]) /\ ~KeywordValue(ResolvedValue(u[k])) }
\* the update entries that are reached and resolve to SKIP or STOP
KeywordEntries ==
    { i \in ReachedEntries : KeywordValue(ResolvedValue(stepDecl.update_parameters[i])) }
SignalOf(word) == IF word = "SKIP" THEN "SkipExecution" ELSE "StopExecution"

\* C11: when a value resolved for a cross-step parameter of a measure step is the
\* string SKIP or STOP, the step raises SkipExecution or StopExecution respectively, no
\* instrument call is made and no result is stored for the step; after any measure step
\* no parameter of the step holds one of the two strings, and a measurement is started
\* only if no reached entry resolved to one of them.
C11_KeywordRaisesBeforeDispatch ==
    (stepPc = "done" /\ stepDecl.task = "measure") =>
        /\ \A i \in KeywordEntries :
              /\ stepOut.exc = SignalOf(ResolvedValue(stepDecl.update_parameters[i]).val)
              /\ stepOut.calls = << >>
              /\ stepOut.results = stepPrev
        /\ \A q \in DOMAIN stepLive.parameters : ~KeywordValue(stepLive.parameters[q])
        /\ stepOut.calls # << >> => KeywordEntries = {}

C11_Witness ==
    /\ stepPc = "done"
    /\ stepDecl.task = "measure"
    /\ KeywordEntries # {}
    /\ stepOut.exc = "StopExecution"
    /\ stepOut.calls = << >>

\* the update entries whose value was stored: reached and not a keyword
StoredEntries ==
    { i \in ReachedEntries : ~KeywordValue(ResolvedValue(stepDecl.update_parameters[i])) }
StoredFor(q) == { i \in StoredEntries : stepDecl.update_parameters[i].parameter = q }
LastOf(S) == CHOOSE i \in S : \A k \in S : k <= i

C12_TeardownOnHardwareError ==
    (ctrlPc = "failed" /\ uncaught = "HardwareError" /\ PhaseEvents("fill") # << >>) =>
        PhaseEvents("empty") # << >>

\* C13: a dispatched step of kind dilute, declared with a volume or a factor, calls
\* dilute_cell on the sampling system and raises nothing of its own; when the call has
\* returned the result records the dilution and the next declared step follows.
C13_DiluteStepCompletes ==
    \A j \in StepRange :
        (\E i \in DispatchPositions(j) : trace[i].op = "dilute") =>
            /\ Positions2("dilute_cell", j) # {}
            /\ Positions2("TypeError", j) = {}
            /\ (\E i \in Positions2("dilute_cell", j) : trace[i].ok) =>
                  ("dilution" \in DOMAIN result /\ stepIdx > j)

\* ---- logging of control flow (Spec)

\* the log records about step j written once the history had reached position a
LoggedAfter(j, a) == { l \in DOMAIN log : log[l].step = j /\ log[l].at >= a }

\* each SKIP of a step is followed by a log record about that step which precedes the
\* dispatch of the next step
SkipLogged ==
    \A j \in StepRange : \A a \in Positions2("SkipExecution", j) :
        \E l \in LoggedAfter(j, a) :
            /\ log[l].msg = "Execution will be skipped"
            /\ \A b \in DispatchPositions(j + 1) : log[l].at < b

\* each STOP of a step is followed by a log record about that step which precedes
\* every call of the emptying sequence
StopLogged ==
    \A j \in StepRange : \A a \in Positions2("StopExecution", j) :
        \E l \in LoggedAfter(j, a) :
            \A b \in DOMAIN trace : trace[b].phase = "empty" => log[l].at < b

\* C15: every control-flow event is logged before the transition it causes: each SKIP
\* produces a log message before the next step is dispatched, and each STOP produces
\* a log message naming the stop before the engine enters the cell emptying.
C15_ControlFlowLogged ==
    SkipLogged /\ StopLogged

\* ---- ownership of the workflow state (Spec)

\* what the control thread owns: the tracked cell volume, the result being built and
\* the results of the run, the two hardware handles
OwnedByControl == <<cell_volume, result, results, potentiostat, sampling_system>>
\* a step of the thread that calls start_system and runs the GUI loop
PresentationStep == mainPc' # mainPc \/ gui' # gui \/ retval' # retval \/ samples' # samples
\* a step of the control thread: it is running and moves on
ControlStep ==
    /\ ctrlPc \in {"init", "loop", "fill", "steps", "empty", "shutdown", "return"}
    /\ ctrlPc' # ctrlPc \/ trace' # trace

\* C16: in every interleaving of the two threads, a step that changes the tracked
\* cell volume, the result accumulators or a hardware handle is a step of the control
\* thread and not of the presentation thread, and a step of the presentation thread
\* leaves all of them unchanged.
C16_SingleWriter ==
    [][ /\ PresentationStep => UNCHANGED OwnedByControl
        /\ ~(UNCHANGED OwnedByControl) => (ControlStep /\ ~PresentationStep) ]_vars

C16_Witness ==
    /\ mainPc = "gui"
    /\ gui = "running"
    /\ ctrlPc = "steps"
    /\ sampleIdx = 2
    /\ cell_volume > 0
    /\ DOMAIN results # {}
    /\ DOMAIN result # {}
    /\ potentiostat = "connected"

\* ---- the cell lifecycle on the sampling system (SpecCell)

\* the calls of the fill are the first three of the history
FillCalls == Len(ExpectedFill)
EmptyingCalls == SubSeq(pump, FillCalls + 1, Len(pump))
IsDraw(c, source, target) ==
    c.op = "draw_and_dispense" /\ c.source = source /\ c.target = target
\* the positions of the emptying at which the cell is filled with wash liquid
WashFills == { i \in DOMAIN EmptyingCalls :
                 IsDraw(EmptyingCalls[i], SamplerConfig.wash_port, SamplerConfig.cell_port) }
TouchesVial(c) ==
    c.source = cellSettings.autosampler_position \/ c.target = cellSettings.autosampler_position

\* the cell is filled with wash liquid and emptied as often as the settings say
WashedAsConfigured ==
    /\ Cardinality(WashFills) = cellSettings.washing_cycles
    /\ \A i \in WashFills :
          /\ i + 1 \in DOMAIN EmptyingCalls
          /\ IsDraw(EmptyingCalls[i + 1], SamplerConfig.cell_port, SamplerConfig.waste_port)

\* C17: in the cell emptying the autosampler position is washed if and only if the
\* discard flag is set, and the cell is filled with wash liquid and emptied exactly as
\* many times as the configured number of washing cycles, for every count n >= 0.
C17_WashAsConfigured ==
    cellPc = "done" =>
        /\ cellSettings.discard_sample <=>
              (\E i \in DOMAIN EmptyingCalls : TouchesVial(EmptyingCalls[i]))
        /\ WashedAsConfigured

\* C18: the fill makes, in this order, the transfer of the sample volume from the
\* sample's autosampler position to the cell, the dilution from the wash port and the
\* purge; the cell having been empty, the tracked volume after the dilution is the
\* total volume of the workflow, also when the sample volume equals the total volume.
C18_FillOrderAndVolume ==
    cellPc \in {"body", "done"} =>
        /\ Len(pump) >= FillCalls
        /\ pump[1] = Draw(cellSettings.autosampler_position, SamplerConfig.cell_port,
                          cellSettings.sample_volume + SamplerConfig.dead_volume)
        /\ pump[2] = Draw(SamplerConfig.wash_port, SamplerConfig.cell_port,
                          cellSettings.total_volume - cellSettings.sample_volume
                          + SamplerConfig.dead_volume)
        /\ pump[3].op = "purge"
        /\ pump[3].volume = cellSettings.purge_time
        /\ cellPc = "body" => cell_volume = cellSettings.total_volume

C18_Witness ==
    /\ cellPc = "body"
    /\ cellSettings.sample_volume = cellSettings.total_volume
    /\ cell_volume = cellSettings.total_volume
    /\ Len(pump) = FillCalls

\* ---- peak lists (SpecPeaks)

\* after the pass no peak ends above the onset of the peak that follows it
NoAdjacentOverlap ==
    \A i \in 1..(Len(peaks) - 1) : ~(peaks[i].offset > peaks[i + 1].onset)

\* every pair of picked peaks that overlapped is flagged on both sides and shares
\* its boundary
OverlapsFlagged ==
    \A i \in 1..(Len(picked) - 1) :
        picked[i].offset > picked[i + 1].onset =>
            /\ peaks[i].overlap
            /\ peaks[i + 1].overlap
            /\ peaks[i].offset = peaks[i + 1].onset

\* C19: for any list of picked peaks in ascending order, after the adjacent-pair pass
\* of _get_peak_data no two adjacent peaks have peak[i].offset > peak[i+1].onset, and
\* every pair that did overlap has both peaks flagged overlap and the offset of the
\* earlier equal to the onset of the later.
C19_PeakOverlapReconciled ==
    peaksPc = "done" => (NoAdjacentOverlap /\ OverlapsFlagged)

\* ---- CV window inference (SpecCv)

\* C20: an iteration of the "CV Parameters" step whose filtering or selection found no
\* peak does not abort the analyzer, the remaining iterations are processed, and the
\* row stored for it holds the global bounds as its window (lowest voltage
\* min_voltage, highest voltage max_voltage).
C20_FailedIterationFallsBack ==
    /\ \A i \in DOMAIN cvTried :
          cvTried[i] # "none" =>
              /\ cv_parameters[i][3] = cvConfig.min_voltage
              /\ cv_parameters[i][1] = cvConfig.max_voltage
    /\ cvPc = "done" => Len(cvTried) = Len(cv_parameters)

\* ---- the window of a selected peak (SpecWindow)

\* the peak the step selected in the stored peak list
SelectedPeak ==
    LET filtered_peaks == filter_peaks(peaks, cvConfig.filters)
    IN filtered_peaks[select_peaks(filtered_peaks, cvConfig.selection).idx]

\* positions in the peak list of the nearest peak below / above the selected one
NearestLower ==
    { i \in DOMAIN peaks :
        /\ peaks[i].peak < SelectedPeak.peak
        /\ \A k \in DOMAIN peaks : peaks[k].peak < SelectedPeak.peak => peaks[k].peak <= peaks[i].peak }
NearestHigher ==
    { i \in DOMAIN peaks :
        /\ peaks[i].peak > SelectedPeak.peak
        /\ \A k \in DOMAIN peaks : peaks[k].peak > SelectedPeak.peak => peaks[k].peak >= peaks[i].peak }

WindowLo == cv_parameters[1][3]
WindowHi == cv_parameters[1][1]

\* the widened window, clipped at the neighbours and at the allowed range
ExpectedLo ==
    LET widened == Max(SelectedPeak.onset - cvConfig.additional_voltage, cvConfig.min_voltage)
    IN IF NearestLower = {} THEN widened
       ELSE Max(widened, peaks[CHOOSE i \in NearestLower : TRUE].offset)
ExpectedHi ==
    LET widened == Min(SelectedPeak.offset + cvConfig.additional_voltage, cvConfig.max_voltage)
    IN IF NearestHigher = {} THEN widened
       ELSE Min(widened, peaks[CHOOSE i \in NearestHigher : TRUE].onset)

WindowSelected == cvPc = "done" /\ cvTried = << "none" >>

\* the parts of the window claim, one by one
LoAtNearestLower == WindowSelected => \A i \in NearestLower : WindowLo >= peaks[i].offset
HiAtNearestHigher == WindowSelected => \A i \in NearestHigher : WindowHi <= peaks[i].onset
LoInRange == WindowSelected => cvConfig.min_voltage <= WindowLo
HiInRange == WindowSelected => WindowHi <= cvConfig.max_voltage

\* C21: in the "CV Parameters" step, for an iteration with a selected peak the window
\* [lo, hi] is [onset - additional_voltage, offset + additional_voltage] of the
\* selected peak, clipped so that lo is not below the offset of the nearest peak at
\* lower voltage, hi is not above the onset of the nearest peak at higher voltage, and
\* min_voltage <= lo and hi <= max_voltage.
C21_WindowClipped ==
    WindowSelected => (WindowLo = ExpectedLo /\ WindowHi = ExpectedHi)

\* ---- cycles of a cyclic voltammogram (SpecCycles)

\* the cycles of the rows of iteration i of the data set handed to the constructor
CyclesOf(i) ==
    ColumnMax(WhereColumn(dataset.val, "iteration", i - 1), "cycle") + 1

\* the list stored for iteration i holds the cycles 2..n-1 of that iteration, in
\* ascending order, each with all its rows
CycleListOf(i) ==
    LET n == CyclesOf(i)
        l == raw_data.val[i]
    IN /\ l.kind = "list"
       /\ Len(l.val) = n - 2
       /\ \A c \in 1..Len(l.val) :
             l.val[c] = Array(WhereColumn(WhereColumn(dataset.val, "iteration", i - 1),
                                          "cycle", c + 1))

\* what the loop of _separate_cycles has built when it is through
LoopDropsTwoCycles ==
    (cyclePc = "cycles" /\ cycle_iteration = Len(raw_data.val)) =>
        \A i \in 1..Len(raw_data.val) : CyclesOf(i) >= 2 => CycleListOf(i)

\* C22: constructing the cyclic-voltammetry analyzer on a data set whose iterations
\* each contain n >= 2 cycles yields, for every iteration, a cycle list of length
\* n - 2 that holds the cycles 2..n-1 in ascending order.
C22_CycleSkipPolicy ==
    cyclePc \in {"done", "raised"} =>
        /\ cyclePc = "done"
        /\ raw_data.kind = "list"
        /\ \A i \in 1..Len(raw_data.val) : CyclesOf(i) >= 2 => CycleListOf(i)

\* ---- analysis configuration (SpecAnalysis)

UnknownSteps == { i \in DOMAIN analysis_settings : analysis_settings[i] \notin PulseMethods }

IsPrefix(a, b) == Len(a) <= Len(b) /\ \A i \in DOMAIN a : a[i] = b[i]

\* C23: an analysis configuration that names a step the operation table of the
\* technique does not have is rejected before any analysis step has executed; with
\* only recognised names run_analysis executes the configured steps in the order of
\* the configuration, each once, and has executed all of them when it returns.
C23_UnknownStepRejected ==
    /\ UnknownSteps # {} =>
          /\ executed = << >>
          /\ analysisPc \in {"new", "raised"}
          /\ analysisPc = "raised" => analysisExc = "KeyError"
    /\ UnknownSteps = {} =>
          /\ IsPrefix(executed, analysis_settings)
          /\ analysisPc \in {"returned", "ready"} => analysisExc = "none"
          /\ analysisPc = "returned" => executed = analysis_settings

\* a configuration whose unknown step follows a recognised one was rejected
C23_Witness ==
    /\ analysisPc = "raised"
    /\ \E i \in UnknownSteps : i > 1
    /\ executed = << >>

\* ---- the polling loop (SpecPoll)

PollEnded == pollPc \in {"returned", "raised"}

\* the channel that was started has been stopped once when the method is left, and
\* never more than once
StoppedOnce ==
    /\ stops <= 1
    /\ PollEnded => stops = (IF channel = "idle" THEN 0 ELSE 1)

\* C24: a manual interrupt raised while a measurement is being polled is a forced
\* end of the measurement and not a failure: the loop ends, the started channel is
\* stopped exactly once and the data acquired so far is returned; on every other
\* exit path the started channel is stopped exactly once as well.
C24_InterruptEndsMeasurement ==
    /\ StoppedOnce
    /\ interrupted => pollPc \in {"exit", "returned"}
    /\ (interrupted /\ pollPc = "returned") => pollExc = "none"

\* the loop is about to poll again
Polling == pollPc = "try"

\* the loop was left by its own break
LeftByStatus == pollPc \in {"exit", "returned"} /\ ~interrupted

\* C28: the polling loop terminates once the device reports status STOP and delivers
\* no further rows, also when the measurement never delivered a row; a poll without
\* new rows while the status is not STOP is retried and does not end the loop.
C28_PollingTerminates ==
    /\ Polling => ~(metadata.status = "STOP" /\ metadata.rows = 0)
    /\ LeftByStatus => (metadata.status = "STOP" /\ metadata.rows = 0)

\* the same for measurements that have delivered at least one row
TerminatesWithData ==
    /\ (Polling /\ acquired > 0) => ~(metadata.status = "STOP" /\ metadata.rows = 0)
    /\ LeftByStatus => (metadata.status = "STOP" /\ metadata.rows = 0)

\* ---- differential-pulse processing (SpecDpv)

FirstIncomplete ==
    LET bad == { i \in DOMAIN submitted : ~(RequiredSampleKeys \subseteq DOMAIN submitted[i]) }
    IN IF bad = {} THEN Len(submitted) + 1
       ELSE CHOOSE i \in bad : \A j \in bad : i <= j

\* C26: submit_samples raises KeyError when a sample of the list lacks one of
\* sample_name, sample_location, workflow_path; it stops at the first such sample: the
\* samples before it have been appended to the queue, in list order after the ones
\* already queued, the incomplete sample and those after it have not; without an
\* incomplete sample all are appended and nothing is raised.
C26_SubmitStopsAtIncomplete ==
    /\ samples = queued_before \o SubSeq(submitted, 1, FirstIncomplete - 1)
    /\ (submitExc = "KeyError") <=> (FirstIncomplete <= Len(submitted))
    /\ submitExc \in {"none", "KeyError"}

\* a list whose second sample is incomplete was submitted to a queue that held a sample
C26_Witness ==
    /\ submitExc = "KeyError"
    /\ FirstIncomplete = 2
    /\ Len(queued_before) >= 1
    /\ Len(samples) = Len(queued_before) + 1

\* the queue positions measured in run r, in the order of the calls
MeasuredIn(r) ==
    LET calls == SelectSeq(measured, LAMBDA m : m.run = r)
    IN [i \in DOMAIN calls |-> calls[i].position]

\* in every run the queue is gone through front to back, each sample once; a run
\* that got to the shutdown has measured every sample of the queue
EachSampleOnce ==
    /\ \A r \in 1..runs : \A i \in DOMAIN MeasuredIn(r) : MeasuredIn(r)[i] = i
    /\ Len(MeasuredIn(runs)) = sampleIdx
    /\ ctrlPc \in {"shutdown", "return"} => sampleIdx = Len(samples)

\* a step of a run changes nothing of the queue, and no step takes a sample out
QueueKept ==
    /\ IsPrefix(samples, samples')
    /\ samples' # samples => UNCHANGED <<ctrlPc, sampleIdx, measured, runs>>

C27_CellVolumeTracked ==
    /\ cell_volume >= 0
    /\ lastCall \in {"empty", "wash"} => cell_volume = 0
    /\ \A i \in DOMAIN fill_volumes : fill_volumes[i] = 0

\* the second sample is about to be filled in after a first one that was diluted and
\* washed out
C27_Witness ==
    /\ Len(fill_volumes) = 1
    /\ volPc = "between"
    /\ lastCall = "wash"
    /\ cellCalls = MaxCellCalls
    /\ cell_volume = 0

\* ---- lookup errors of cross-step parameters (SpecStep)

\* the update entries that are reached and cannot be looked up: the prior step has no
\* entry, or its entry lacks the key
FailedLookups ==
    LET u == stepDecl.update_parameters IN
    { i \in DOMAIN u :
         /\ ~Resolvable(u[i])
         /\ \A k \in 1..(i - 1) : Resolvable(u[k]) /\ ~KeywordValue(ResolvedValue(u[k])) }

LookupFails == stepDecl.task = "measure" /\ FailedLookups # {}

\* C29: if a cross-step parameter of a measure step refers to a prior step without an
\* entry in the run result or to a key absent from that entry, the step fails with
\* KeyError, which is neither SkipExecution nor StopExecution: no measurement is
\* started and no result stored for the step, the step loop does not go on with the
\* remaining steps, _measure_sample does not return, and the error leaves the sample's
\* scope after the cell teardown (an exception of the teardown leaves in its place).
C29_LookupErrorPropagates ==
    (LookupFails /\ stepPc # "ready") =>
        /\ stepOut.exc = "KeyError"
        /\ stepOut.calls = << >>
        /\ stepOut.results = stepPrev
        /\ stepPc \in {"done", "teardown", "raised"}
        /\ stepPc = "raised" =>
              /\ stepLeft.teardown # "none"
              /\ stepLeft.exc = IF stepLeft.teardown = "returned"
                                THEN "KeyError" ELSE "HardwareError"

\* the entry refers to a key the prior step's entry lacks; the KeyError left after the
\* teardown
C29_Witness ==
    /\ stepPc = "raised"
    /\ LookupFails
    /\ FailedLookups = {1}
    /\ stepDecl.update_parameters[1].from \in DOMAIN stepPrev
    /\ stepLeft = [teardown |-> "returned", exc |-> "KeyError"]

====
